---- MODULE Spec2Model ----
(***************************************************************************)
(* A model of pyorthanc's Study resource (src/pyorthanc/_resources/study.py) *)
(* on top of the client transport (src/pyorthanc/async_client.py).           *)
(*                                                                           *)
(* One Study object is used by one caller.  Every operation of the Study is  *)
(* one action; the answer the transport would give to a request made during  *)
(* the operation is an input of the action.  Series objects and the lists    *)
(* that hold them live on a heap, so that object identity can be observed.   *)
(***************************************************************************)
EXTENDS Integers, Sequences, FiniteSets, TLC

VARIABLES study, client, nodes, lists, nreq, ret, okFetches, firstFetched,
          seriesRets, callers, written, job

vars == <<study, client, nodes, lists, nreq, ret, okFetches, firstFetched,
          seriesRets, callers, written, job>>

\* the state of the concurrent callers and of the job handle, which the
\* operations of a Study used by one caller leave alone
elsewhere == <<callers, written, job>>

(***************************************************************************)
(* Bounds of the model.                                                      *)
(***************************************************************************)
\* transport requests issued in one run
MaxReq == 3
\* Series objects constructed in one run
MaxNodes == 4
\* child-list objects constructed in one run
MaxLists == 3

(***************************************************************************)
(* Python values.                                                            *)
(***************************************************************************)
\* an unset optional field (Python None)
None == <<>>
\* a set optional field
Some(x) == <<x>>

\* the outcome of a call: a normal return or a raised exception
Return(v) == [kind |-> "return", value |-> v]
Raise(exc, msg) == [kind |-> "raise", exc |-> exc, msg |-> msg]

\* the value of a call that returns nothing
NoValue == [t |-> "none"]

Range(s) == {s[i] : i \in 1..Len(s)}

RECURSIVE FilterSeq(_, _)
\* [x for x in s if x \in keep]
FilterSeq(s, keep) ==
    IF s = <<>> THEN <<>>
    ELSE IF Head(s) \in keep THEN <<Head(s)>> \o FilterSeq(Tail(s), keep)
         ELSE FilterSeq(Tail(s), keep)

(***************************************************************************)
(* The server's answers.                                                     *)
(***************************************************************************)
StudyId == "st"
SeriesArrays == {<<>>, <<"s1">>, <<"s2", "s1">>}
InstanceArrays == {<<>>, <<"i1">>}

\* the characters of a DICOM date "20240115" and of a DICOM time "143000"
DicomDate == <<2, 0, 2, 4, 0, 1, 1, 5>>
DicomTime == <<1, 4, 3, 0, 0, 0>>

\* the main information of the study, as the server may report it
StudyInfos ==
    {[ID |-> StudyId, Series |-> <<>>, Labels |-> <<>>,
      MainDicomTags |-> [StudyDescription |-> "", StudyDate |-> DicomDate]],
     [ID |-> StudyId, Series |-> <<"s1">>, Labels |-> <<"l1">>,
      MainDicomTags |-> [StudyDate |-> DicomDate, StudyTime |-> DicomTime]],
     [ID |-> StudyId, Series |-> <<"s2", "s1">>, Labels |-> <<"l1", "l2">>,
      MainDicomTags |-> [StudyDescription |-> "CT", StudyID |-> "1"]],
     [ID |-> StudyId, Labels |-> <<>>,
      MainDicomTags |-> [StudyDate |-> DicomDate]]}
\* the main information of a series
SeriesInfo(id, a) == [ID |-> id, Instances |-> a]
\* the body of an error answer
ErrorBody(status) == [HttpStatus |-> status]

\* what httpx gives for one request: a response, or an exception of its own
HttpResponse(status, ctype, body) ==
    [kind |-> "response", status |-> status,
     headers |-> ("content-type" :> ctype), body |-> body]
\* a response that carries no content-type header
HttpResponseNoType(status, body) ==
    [kind |-> "response", status |-> status, headers |-> <<>>, body |-> body]
HttpRaise(exc) == [kind |-> "raise", exc |-> exc]

\* the answer for a resource the server does not have
NotFound == HttpResponse(404, "application/json", ErrorBody(404))
\* the request ran into the client's timeout
TimedOut == HttpRaise("ReadTimeout")
\* the server could not be reached
Unreachable == HttpRaise("ConnectError")

\* GET /studies/{id}
StudyHttp ==
    {HttpResponse(200, "application/json", i) : i \in StudyInfos}
        \cup {NotFound, TimedOut}

\* GET /series/{id}
SeriesHttp(id) ==
    {HttpResponse(200, "application/json", SeriesInfo(id, a)) : a \in InstanceArrays}
        \cup {NotFound}

\* POST /studies/{id}/anonymize: the new study, or the job when asked for one
AnonymizeHttp(data) ==
    {HttpResponse(200, "application/json",
                  IF data["Asynchronous"] THEN [ID |-> "job-1", Path |-> "/jobs/job-1"]
                  ELSE [ID |-> "anon-1", Path |-> "/studies/anon-1", Type |-> "Study"])}
        \cup {NotFound, TimedOut, Unreachable}

\* GET /studies/{id}/archive
ArchiveHttp ==
    {HttpResponse(200, "application/zip", [zip |-> StudyId])} \cup {NotFound, TimedOut}

\* PUT and DELETE /studies/{id}/labels/{label}
LabelHttp ==
    {HttpResponse(200, "text/plain", [text |-> ""])} \cup {NotFound, TimedOut}

(***************************************************************************)
(* The transport: AsyncOrthanc._get and the endpoint wrappers.               *)
(***************************************************************************)
StatusText(s) ==
    CASE s = 199 -> "199" [] s = 200 -> "200" [] s = 204 -> "204"
      [] s = 299 -> "299" [] s = 300 -> "300" [] s = 400 -> "400" [] s = 404 -> "404"
      [] s = 500 -> "500" [] OTHER -> "???"

\* "application/json" in response.headers["content-type"]
IsJson(ctype) == ctype \in {"application/json", "application/json; charset=utf-8"}
\* "text/plain" in response.headers["content-type"]
IsText(ctype) == ctype \in {"text/plain", "text/plain; charset=utf-8"}

\* the decoding of a 2xx response; response.headers["content-type"] raises
\* KeyError when the response has no such header
Decode(http) ==
    IF "content-type" \notin DOMAIN http.headers
    THEN Raise("KeyError", <<"content-type">>)
    ELSE IF IsJson(http.headers["content-type"])
    THEN Return([t |-> "json", v |-> http.body])
    ELSE IF IsText(http.headers["content-type"])
    THEN Return([t |-> "text", v |-> http.body])
    ELSE Return([t |-> "bytes", v |-> http.body])

\* what the transport's own exception carries
NetMessage(exc) == <<exc, "raised", "by", "httpx">>

\* a variant that decodes every response, whatever its status
_get_NoStatusCheck(cl, http) ==
    IF http.kind = "raise" THEN Raise(http.exc, NetMessage(http.exc))
    ELSE IF cl.return_raw_response THEN Return([t |-> "raw", v |-> http])
    ELSE Decode(http)

_get(cl, http) ==
    IF http.kind = "raise" THEN Raise(http.exc, NetMessage(http.exc))
    ELSE IF cl.return_raw_response THEN Return([t |-> "raw", v |-> http])
    ELSE IF 200 <= http.status /\ http.status < 300 THEN Decode(http)
    ELSE Raise("HTTPError", <<"HTTP code:", StatusText(http.status)>>)

_delete(cl, http) ==
    IF http.kind = "raise" THEN Raise(http.exc, NetMessage(http.exc))
    ELSE IF cl.return_raw_response THEN Return([t |-> "raw", v |-> http])
    ELSE IF 200 <= http.status /\ http.status < 300 THEN Decode(http)
    ELSE Raise("HTTPError", <<"HTTP code:", StatusText(http.status)>>)

\* a variant that takes every status below 500 for a success
_post_ServerErrorsOnly(cl, http) ==
    IF http.kind = "raise" THEN Raise(http.exc, NetMessage(http.exc))
    ELSE IF cl.return_raw_response THEN Return([t |-> "raw", v |-> http])
    ELSE IF 200 <= http.status /\ http.status < 500 THEN Decode(http)
    ELSE Raise("HTTPError", <<"HTTP code:", StatusText(http.status)>>)

_post(cl, http) ==
    IF http.kind = "raise" THEN Raise(http.exc, NetMessage(http.exc))
    ELSE IF cl.return_raw_response THEN Return([t |-> "raw", v |-> http])
    ELSE IF 200 <= http.status /\ http.status < 300 THEN Decode(http)
    ELSE Raise("HTTPError", <<"HTTP code:", StatusText(http.status)>>)

_put(cl, http) ==
    IF http.kind = "raise" THEN Raise(http.exc, NetMessage(http.exc))
    ELSE IF cl.return_raw_response THEN Return([t |-> "raw", v |-> http])
    ELSE IF 200 <= http.status /\ http.status < 300 THEN Decode(http)
    ELSE Raise("HTTPError", <<"HTTP code:", StatusText(http.status)>>)

get_studies_id(cl, http) == _get(cl, http)
post_studies_id_anonymize(cl, http) == _post(cl, http)
get_studies_id_archive(cl, http) == _get(cl, http)
put_studies_id_labels_label(cl, http) == _put(cl, http)
delete_studies_id_labels_label(cl, http) == _delete(cl, http)

\* value[key] of a fetched payload
GetItem(value, key) ==
    IF value.t = "json"
    THEN IF key \in DOMAIN value.v THEN Return(value.v[key])
         ELSE Raise("KeyError", <<key>>)
    ELSE Raise("TypeError", <<key>>)

(***************************************************************************)
(* Study.get_main_information                                                *)
(***************************************************************************)
\* the result of an operation on the Study: the object afterwards, the
\* outcome for the caller, and the endpoints requested on the way
Result(self, out, reqs) == [self |-> self, out |-> out, reqs |-> reqs]

\* a variant that swallows a failed fetch and keeps an empty result for it
get_main_information_KeepFailure(self, cl, http) ==
    IF self.lock
    THEN IF self._information = None
         THEN LET r == get_studies_id(cl, http)
                  v == IF r.kind = "raise" THEN [t |-> "json", v |-> <<>>] ELSE r.value
              IN  Result([self EXCEPT !._information = Some(v)],
                         r, <<"get_studies_id">>)
         ELSE Result(self, Return(self._information[1]), <<>>)
    ELSE Result(self, get_studies_id(cl, http), <<"get_studies_id">>)

\* a variant that asks the server a second time when the first request fails
get_main_information_Retry(self, cl, http) ==
    IF self.lock
    THEN IF self._information = None
         THEN LET r == get_studies_id(cl, http)
              IN  IF r.kind = "raise"
                  THEN Result(self, get_studies_id(cl, http),
                              <<"get_studies_id", "get_studies_id">>)
                  ELSE Result([self EXCEPT !._information = Some(r.value)],
                              Return(r.value), <<"get_studies_id">>)
         ELSE Result(self, Return(self._information[1]), <<>>)
    ELSE LET r == get_studies_id(cl, http)
         IN  IF r.kind = "raise"
             THEN Result(self, get_studies_id(cl, http),
                         <<"get_studies_id", "get_studies_id">>)
             ELSE Result(self, r, <<"get_studies_id">>)

\* a variant that forgets the cache: it fetches on every call
get_main_information_Refetch(self, cl, http) ==
    LET r == get_studies_id(cl, http)
    IN  IF self.lock /\ r.kind = "return"
        THEN Result([self EXCEPT !._information = Some(r.value)], r, <<"get_studies_id">>)
        ELSE Result(self, r, <<"get_studies_id">>)

\* a variant that caches whatever the lock flag says
get_main_information_CacheAlways(self, cl, http) ==
    IF self._information = None
    THEN LET r == get_studies_id(cl, http)
         IN  IF r.kind = "raise"
             THEN Result(self, r, <<"get_studies_id">>)
             ELSE Result([self EXCEPT !._information = Some(r.value)],
                         Return(r.value), <<"get_studies_id">>)
    ELSE Result(self, Return(self._information[1]), <<>>)

get_main_information(self, cl, http) ==
    IF self.lock
    THEN IF self._information = None
         THEN LET r == get_studies_id(cl, http)
              IN  IF r.kind = "raise"
                  THEN Result(self, r, <<"get_studies_id">>)
                  ELSE Result([self EXCEPT !._information = Some(r.value)],
                              Return(r.value), <<"get_studies_id">>)
         ELSE Result(self, Return(self._information[1]), <<>>)
    ELSE Result(self, get_studies_id(cl, http), <<"get_studies_id">>)

(***************************************************************************)
(* Series objects (pyorthanc/_resources/series.py, which follows the rules   *)
(* of the resource node and of the container resources).                     *)
(***************************************************************************)
\* Series(i, client, lock): a new Series object with nothing cached
NewSeries(i, cl, lock) ==
    [level |-> "Series", id_ |-> i, client |-> cl, lock |-> lock,
     _information |-> None, _child_resources |-> None]

get_series_id(cl, http) == _get(cl, http)

\* Series.get_main_information: the caching rule of the resource node
series_get_main_information(self, cl, http) ==
    IF self.lock
    THEN IF self._information = None
         THEN LET r == get_series_id(cl, http)
              IN  IF r.kind = "raise"
                  THEN Result(self, r, <<"get_series_id">>)
                  ELSE Result([self EXCEPT !._information = Some(r.value)],
                              Return(r.value), <<"get_series_id">>)
         ELSE Result(self, Return(self._information[1]), <<>>)
    ELSE Result(self, get_series_id(cl, http), <<"get_series_id">>)

\* Series.instances: the children accessor of a container resource
series_instances(self, cl, http) ==
    IF self.lock /\ self._child_resources # None
    THEN Result(self, Return([t |-> "instances", v |-> self._child_resources[1]]), <<>>)
    ELSE LET g == series_get_main_information(self, cl, http)
             ids == GetItem(g.out.value, "Instances")
         IN  IF g.out.kind = "raise" THEN g
             ELSE IF ids.kind = "raise" THEN Result(g.self, ids, g.reqs)
             ELSE Result(IF self.lock
                         THEN [g.self EXCEPT !._child_resources = Some(ids.value)]
                         ELSE g.self,
                         Return([t |-> "instances", v |-> ids.value]), g.reqs)

\* the entry of an instance list that stands for no instance
NoInstance == "None"

\* Series.remove_empty_instances: prunes the cached instance list, no fetch
remove_empty_instances(self) ==
    IF self._child_resources = None THEN self
    ELSE [self EXCEPT !._child_resources =
              Some(FilterSeq(self._child_resources[1],
                             Range(self._child_resources[1]) \ {NoInstance}))]

(***************************************************************************)
(* Study.series                                                              *)
(***************************************************************************)
\* the result of an operation that may construct objects
HeapResult(self, out, reqs, nds, lsts) ==
    [self |-> self, out |-> out, reqs |-> reqs, nodes |-> nds, lists |-> lsts]

\* a reference to the list object at an address of the heap
ListRef(a) == [t |-> "list", ref |-> a]

\* a variant that builds the children with the default lock flag
BuildSeries_DefaultLock(ids, cl, lock) ==
    [k \in 1..Len(ids) |-> NewSeries(ids[k], cl, TRUE)]

\* a variant that builds the children from the last ID to the first
BuildSeries_Reversed(ids, cl, lock) ==
    [k \in 1..Len(ids) |-> NewSeries(ids[Len(ids) + 1 - k], cl, lock)]

\* [Series(i, self.client, self.lock) for i in series_ids]
BuildSeries(ids, cl, lock) == [k \in 1..Len(ids) |-> NewSeries(ids[k], cl, lock)]

\* the addresses the new objects get
NewAddrs(nds, n) == [k \in 1..n |-> Len(nds) + k]

\* a variant that rebuilds the children on every call
series_Rebuild(self, cl, http, nds, lsts) ==
    LET g == get_main_information(self, cl, http)
        ids == GetItem(g.out.value, "Series")
    IN  IF g.out.kind = "raise"
        THEN HeapResult(g.self, g.out, g.reqs, nds, lsts)
        ELSE IF ids.kind = "raise"
        THEN HeapResult(g.self, ids, g.reqs, nds, lsts)
        ELSE LET built == BuildSeries(ids.value, cl, self.lock)
                 l == Len(lsts) + 1
             IN  HeapResult(IF self.lock
                            THEN [g.self EXCEPT !._child_resources = Some(l)]
                            ELSE g.self,
                            Return(ListRef(l)), g.reqs, nds \o built,
                            Append(lsts, NewAddrs(nds, Len(ids.value))))

\* a variant that keeps the children whatever the lock flag says
series_CacheAlways(self, cl, http, nds, lsts) ==
    IF self._child_resources # None
    THEN HeapResult(self, Return(ListRef(self._child_resources[1])), <<>>, nds, lsts)
    ELSE LET g == get_main_information(self, cl, http)
             ids == GetItem(g.out.value, "Series")
         IN  IF g.out.kind = "raise"
             THEN HeapResult(g.self, g.out, g.reqs, nds, lsts)
             ELSE IF ids.kind = "raise"
             THEN HeapResult(g.self, ids, g.reqs, nds, lsts)
             ELSE LET built == BuildSeries(ids.value, cl, self.lock)
                      l == Len(lsts) + 1
                  IN  HeapResult([g.self EXCEPT !._child_resources = Some(l)],
                                 Return(ListRef(l)), g.reqs, nds \o built,
                                 Append(lsts, NewAddrs(nds, Len(ids.value))))

\* a variant that takes an empty child list for one not fetched yet
\* (`if not self._child_resources`)
series_EmptyIsUnset(self, cl, http, nds, lsts) ==
    IF self.lock /\ self._child_resources # None
           /\ lsts[self._child_resources[1]] # <<>>
    THEN HeapResult(self, Return(ListRef(self._child_resources[1])), <<>>, nds, lsts)
    ELSE LET g == get_main_information(self, cl, http)
             ids == GetItem(g.out.value, "Series")
         IN  IF g.out.kind = "raise"
             THEN HeapResult(g.self, g.out, g.reqs, nds, lsts)
             ELSE IF ids.kind = "raise"
             THEN HeapResult(g.self, ids, g.reqs, nds, lsts)
             ELSE LET built == BuildSeries(ids.value, cl, self.lock)
                      l == Len(lsts) + 1
                  IN  HeapResult(IF self.lock
                                 THEN [g.self EXCEPT !._child_resources = Some(l)]
                                 ELSE g.self,
                                 Return(ListRef(l)), g.reqs, nds \o built,
                                 Append(lsts, NewAddrs(nds, Len(ids.value))))

\* a variant that fetches the child IDs itself instead of asking
\* get_main_information()
series_OwnFetch(self, cl, http, nds, lsts) ==
    IF self.lock /\ self._child_resources # None
    THEN HeapResult(self, Return(ListRef(self._child_resources[1])), <<>>, nds, lsts)
    ELSE LET f == get_studies_id(cl, http)
             ids == GetItem(f.value, "Series")
         IN  IF f.kind = "raise"
             THEN HeapResult(self, f, <<"get_studies_id">>, nds, lsts)
             ELSE IF ids.kind = "raise"
             THEN HeapResult(self, ids, <<"get_studies_id">>, nds, lsts)
             ELSE LET built == BuildSeries(ids.value, cl, self.lock)
                      l == Len(lsts) + 1
                  IN  HeapResult(IF self.lock
                                 THEN [self EXCEPT !._child_resources = Some(l)]
                                 ELSE self,
                                 Return(ListRef(l)), <<"get_studies_id">>, nds \o built,
                                 Append(lsts, NewAddrs(nds, Len(ids.value))))

\* a variant that keeps the sequence it built last, and reads it when locked
series_RemembersLast(self, cl, http, nds, lsts) ==
    IF self.lock /\ self._child_resources # None
    THEN HeapResult(self, Return(ListRef(self._child_resources[1])), <<>>, nds, lsts)
    ELSE LET g == get_main_information(self, cl, http)
             ids == GetItem(g.out.value, "Series")
         IN  IF g.out.kind = "raise"
             THEN HeapResult(g.self, g.out, g.reqs, nds, lsts)
             ELSE IF ids.kind = "raise"
             THEN HeapResult(g.self, ids, g.reqs, nds, lsts)
             ELSE LET built == BuildSeries(ids.value, cl, self.lock)
                      l == Len(lsts) + 1
                  IN  HeapResult([g.self EXCEPT !._child_resources = Some(l)],
                                 Return(ListRef(l)), g.reqs, nds \o built,
                                 Append(lsts, NewAddrs(nds, Len(ids.value))))

\* a variant that keeps an empty sequence when the materialization fails
series_StoresOnFailure(self, cl, http, nds, lsts) ==
    IF self.lock /\ self._child_resources # None
    THEN HeapResult(self, Return(ListRef(self._child_resources[1])), <<>>, nds, lsts)
    ELSE LET g == get_main_information(self, cl, http)
             ids == GetItem(g.out.value, "Series")
             failed == IF self.lock
                       THEN [g.self EXCEPT !._child_resources = Some(Len(lsts) + 1)]
                       ELSE g.self
             kept == IF self.lock THEN Append(lsts, <<>>) ELSE lsts
         IN  IF g.out.kind = "raise"
             THEN HeapResult(failed, g.out, g.reqs, nds, kept)
             ELSE IF ids.kind = "raise"
             THEN HeapResult(failed, ids, g.reqs, nds, kept)
             ELSE LET built == BuildSeries(ids.value, cl, self.lock)
                      l == Len(lsts) + 1
                  IN  HeapResult(IF self.lock
                                 THEN [g.self EXCEPT !._child_resources = Some(l)]
                                 ELSE g.self,
                                 Return(ListRef(l)), g.reqs, nds \o built,
                                 Append(lsts, NewAddrs(nds, Len(ids.value))))

series(self, cl, http, nds, lsts) ==
    IF self.lock /\ self._child_resources # None
    THEN HeapResult(self, Return(ListRef(self._child_resources[1])), <<>>, nds, lsts)
    ELSE LET g == get_main_information(self, cl, http)
             ids == GetItem(g.out.value, "Series")
         IN  IF g.out.kind = "raise"
             THEN HeapResult(g.self, g.out, g.reqs, nds, lsts)
             ELSE IF ids.kind = "raise"
             THEN HeapResult(g.self, ids, g.reqs, nds, lsts)
             ELSE LET built == BuildSeries(ids.value, cl, self.lock)
                      l == Len(lsts) + 1
                  IN  HeapResult(IF self.lock
                                 THEN [g.self EXCEPT !._child_resources = Some(l)]
                                 ELSE g.self,
                                 Return(ListRef(l)), g.reqs, nds \o built,
                                 Append(lsts, NewAddrs(nds, Len(ids.value))))

(***************************************************************************)
(* Study.remove_empty_series                                                 *)
(***************************************************************************)
\* a variant that materializes the children first when they are unset
remove_empty_series_Materialize(self, nds, lsts) ==
    IF self._child_resources = None
    THEN LET r == series(self, [return_raw_response |-> FALSE],
                         HttpResponse(200, "application/json",
                                      [ID |-> StudyId, Series |-> <<>>]), nds, lsts)
         IN  HeapResult(r.self, Return(NoValue), r.reqs, r.nodes, r.lists)
    ELSE LET old == lsts[self._child_resources[1]]
             pruned == [a \in 1..Len(nds) |->
                           IF a \in Range(old) THEN remove_empty_instances(nds[a])
                           ELSE nds[a]]
             kept == FilterSeq(old, {a \in Range(old) :
                                        pruned[a]._child_resources # Some(<<>>)})
             l == Len(lsts) + 1
         IN  HeapResult([self EXCEPT !._child_resources = Some(l)],
                        Return(NoValue), <<>>, pruned, Append(lsts, kept))

\* a variant that forgets the children when none of them is kept
remove_empty_series_ResetsWhenEmpty(self, nds, lsts) ==
    IF self._child_resources = None
    THEN HeapResult(self, Return(NoValue), <<>>, nds, lsts)
    ELSE LET old == lsts[self._child_resources[1]]
             pruned == [a \in 1..Len(nds) |->
                           IF a \in Range(old) THEN remove_empty_instances(nds[a])
                           ELSE nds[a]]
             kept == FilterSeq(old, {a \in Range(old) :
                                        pruned[a]._child_resources # Some(<<>>)})
             l == Len(lsts) + 1
         IN  HeapResult([self EXCEPT !._child_resources =
                                         IF kept = <<>> THEN None ELSE Some(l)],
                        Return(NoValue), <<>>, pruned, Append(lsts, kept))

\* a variant that keeps the children whose list is truthy (`if s._child_resources`)
remove_empty_series_DropsFalsy(self, nds, lsts) ==
    IF self._child_resources = None
    THEN HeapResult(self, Return(NoValue), <<>>, nds, lsts)
    ELSE LET old == lsts[self._child_resources[1]]
             pruned == [a \in 1..Len(nds) |->
                           IF a \in Range(old) THEN remove_empty_instances(nds[a])
                           ELSE nds[a]]
             kept == FilterSeq(old, {a \in Range(old) :
                                        pruned[a]._child_resources \notin {None, Some(<<>>)}})
             l == Len(lsts) + 1
         IN  HeapResult([self EXCEPT !._child_resources = Some(l)],
                        Return(NoValue), <<>>, pruned, Append(lsts, kept))

\* a variant that tests the children's lists for None instead of []
remove_empty_series_DropsUnset(self, nds, lsts) ==
    IF self._child_resources = None
    THEN HeapResult(self, Return(NoValue), <<>>, nds, lsts)
    ELSE LET old == lsts[self._child_resources[1]]
             pruned == [a \in 1..Len(nds) |->
                           IF a \in Range(old) THEN remove_empty_instances(nds[a])
                           ELSE nds[a]]
             kept == FilterSeq(old, {a \in Range(old) :
                                        pruned[a]._child_resources # None})
             l == Len(lsts) + 1
         IN  HeapResult([self EXCEPT !._child_resources = Some(l)],
                        Return(NoValue), <<>>, pruned, Append(lsts, kept))

remove_empty_series(self, nds, lsts) ==
    IF self._child_resources = None
    THEN HeapResult(self, Return(NoValue), <<>>, nds, lsts)
    ELSE LET old == lsts[self._child_resources[1]]
             pruned == [a \in 1..Len(nds) |->
                           IF a \in Range(old) THEN remove_empty_instances(nds[a])
                           ELSE nds[a]]
             kept == FilterSeq(old, {a \in Range(old) :
                                        pruned[a]._child_resources # Some(<<>>)})
             l == Len(lsts) + 1
         IN  HeapResult([self EXCEPT !._child_resources = Some(l)],
                        Return(NoValue), <<>>, pruned, Append(lsts, kept))

(***************************************************************************)
(* Study.anonymize and Study.anonymize_as_job                                *)
(***************************************************************************)
\* the arguments a caller may pass (None: the argument is left out)
AnonymizeArgs ==
    {[remove |-> None, replace |-> None, keep |-> None, force |-> None,
      keep_private_tags |-> None, keep_source |-> None, priority |-> None,
      permissive |-> None, dicom_version |-> None],
     [remove |-> None, replace |-> None, keep |-> None, force |-> None,
      keep_private_tags |-> None, keep_source |-> Some(TRUE), priority |-> None,
      permissive |-> None, dicom_version |-> Some("2021b")],
     [remove |-> Some(<<"PatientName">>),
      replace |-> Some([StudyDescription |-> "A description"]),
      keep |-> Some(<<"StudyDate">>), force |-> Some(TRUE),
      keep_private_tags |-> Some(TRUE), keep_source |-> Some(FALSE),
      priority |-> Some(1), permissive |-> Some(TRUE),
      dicom_version |-> Some("2021b")]}

\* the value of a parameter: the argument, or the default of the signature
Arg(given, default) == IF given = None THEN default ELSE given[1]

\* the request body anonymize builds
AnonymizeData(args) ==
    LET remove == IF args.remove = None THEN <<>> ELSE args.remove[1]
        replace == IF args.replace = None THEN <<>> ELSE args.replace[1]
        keep == IF args.keep = None THEN <<>> ELSE args.keep[1]
        data == [Asynchronous |-> FALSE,
                 Remove |-> remove,
                 Replace |-> replace,
                 Keep |-> keep,
                 Force |-> Arg(args.force, FALSE),
                 KeepPrivateTags |-> Arg(args.keep_private_tags, FALSE),
                 KeepSource |-> Arg(args.keep_source, TRUE),
                 Priority |-> Arg(args.priority, 0),
                 Permissive |-> Arg(args.permissive, FALSE)]
    IN  IF args.dicom_version # None
        THEN data @@ ("DicomVersion" :> args.dicom_version[1])
        ELSE data

\* a variant that leaves the DICOM version out of the job's request
AnonymizeAsJobData_NoVersion(args) ==
    [Asynchronous |-> TRUE,
     Remove |-> IF args.remove = None THEN <<>> ELSE args.remove[1],
     Replace |-> IF args.replace = None THEN <<>> ELSE args.replace[1],
     Keep |-> IF args.keep = None THEN <<>> ELSE args.keep[1],
     Force |-> Arg(args.force, FALSE),
     KeepPrivateTags |-> Arg(args.keep_private_tags, FALSE),
     KeepSource |-> Arg(args.keep_source, TRUE),
     Priority |-> Arg(args.priority, 0),
     Permissive |-> Arg(args.permissive, FALSE)]

\* the request body anonymize_as_job builds
AnonymizeAsJobData(args) ==
    LET remove == IF args.remove = None THEN <<>> ELSE args.remove[1]
        replace == IF args.replace = None THEN <<>> ELSE args.replace[1]
        keep == IF args.keep = None THEN <<>> ELSE args.keep[1]
        data == [Asynchronous |-> TRUE,
                 Remove |-> remove,
                 Replace |-> replace,
                 Keep |-> keep,
                 Force |-> Arg(args.force, FALSE),
                 KeepPrivateTags |-> Arg(args.keep_private_tags, FALSE),
                 KeepSource |-> Arg(args.keep_source, TRUE),
                 Priority |-> Arg(args.priority, 0),
                 Permissive |-> Arg(args.permissive, FALSE)]
    IN  IF args.dicom_version # None
        THEN data @@ ("DicomVersion" :> args.dicom_version[1])
        ELSE data

\* the message of the ReadTimeout that anonymize raises, word by word
AnonymizeTimeoutMessage ==
    <<"Study", "anonymization", "is", "too", "long", "to", "process.",
      "Use", ".anonymize_as_job", "or", "increase", "client.timeout.">>

\* a variant without the except clause: the transport's exception goes through
anonymize_NoTranslation(self, cl, http) ==
    LET r == post_studies_id_anonymize(cl, http)
        id == GetItem(r.value, "ID")
    IN  IF r.kind = "raise"
        THEN Result(self, r, <<"post_studies_id_anonymize">>)
        ELSE IF id.kind = "raise"
        THEN Result(self, id, <<"post_studies_id_anonymize">>)
        ELSE Result(self, Return([t |-> "Study", id_ |-> id.value]),
                    <<"post_studies_id_anonymize">>)

\* a variant that wraps the identifier of the source study
anonymize_SourceId(self, cl, http) ==
    LET r == post_studies_id_anonymize(cl, http)
        id == GetItem(r.value, "ID")
    IN  IF r.kind = "raise"
        THEN IF r.exc = "ReadTimeout"
             THEN Result(self, Raise("ReadTimeout", AnonymizeTimeoutMessage),
                         <<"post_studies_id_anonymize">>)
             ELSE Result(self, r, <<"post_studies_id_anonymize">>)
        ELSE IF id.kind = "raise"
        THEN Result(self, id, <<"post_studies_id_anonymize">>)
        ELSE Result(self, Return([t |-> "Study", id_ |-> self.id_]),
                    <<"post_studies_id_anonymize">>)

anonymize(self, cl, http) ==
    LET r == post_studies_id_anonymize(cl, http)
        id == GetItem(r.value, "ID")
    IN  IF r.kind = "raise"
        THEN IF r.exc = "ReadTimeout"
             THEN Result(self, Raise("ReadTimeout", AnonymizeTimeoutMessage),
                         <<"post_studies_id_anonymize">>)
             ELSE Result(self, r, <<"post_studies_id_anonymize">>)
        ELSE IF id.kind = "raise"
        THEN Result(self, id, <<"post_studies_id_anonymize">>)
        ELSE Result(self, Return([t |-> "Study", id_ |-> id.value]),
                    <<"post_studies_id_anonymize">>)

\* a variant that gives the job request the guidance of the synchronous call
anonymize_as_job_Translates(self, cl, http) ==
    LET r == post_studies_id_anonymize(cl, http)
        id == GetItem(r.value, "ID")
    IN  IF r.kind = "raise"
        THEN IF r.exc = "ReadTimeout"
             THEN Result(self, Raise("ReadTimeout", AnonymizeTimeoutMessage),
                         <<"post_studies_id_anonymize">>)
             ELSE Result(self, r, <<"post_studies_id_anonymize">>)
        ELSE IF id.kind = "raise"
        THEN Result(self, id, <<"post_studies_id_anonymize">>)
        ELSE Result(self, Return([t |-> "Job", id_ |-> id.value]),
                    <<"post_studies_id_anonymize">>)

anonymize_as_job(self, cl, http) ==
    LET r == post_studies_id_anonymize(cl, http)
        id == GetItem(r.value, "ID")
    IN  IF r.kind = "raise"
        THEN Result(self, r, <<"post_studies_id_anonymize">>)
        ELSE IF id.kind = "raise"
        THEN Result(self, id, <<"post_studies_id_anonymize">>)
        ELSE Result(self, Return([t |-> "Job", id_ |-> id.value]),
                    <<"post_studies_id_anonymize">>)

(***************************************************************************)
(* Study.get_zip, Study.add_label, Study.remove_label                        *)
(***************************************************************************)
\* a variant that reads the main information before it asks for the archive
get_zip_ViaInformation(self, cl, http) ==
    LET g == get_main_information(self, cl, http)
    IN  Result(g.self, get_studies_id_archive(cl, http),
               g.reqs \o <<"get_studies_id_archive">>)

get_zip(self, cl, http) ==
    Result(self, get_studies_id_archive(cl, http), <<"get_studies_id_archive">>)

\* a variant that drops the cached main information after the request
add_label_Invalidate(self, cl, http) ==
    LET r == put_studies_id_labels_label(cl, http)
    IN  Result([self EXCEPT !._information = None],
               IF r.kind = "raise" THEN r ELSE Return(NoValue),
               <<"put_studies_id_labels_label">>)

add_label(self, cl, http) ==
    LET r == put_studies_id_labels_label(cl, http)
    IN  Result(self, IF r.kind = "raise" THEN r ELSE Return(NoValue),
               <<"put_studies_id_labels_label">>)

remove_label(self, cl, http) ==
    LET r == delete_studies_id_labels_label(cl, http)
    IN  Result(self, IF r.kind = "raise" THEN r ELSE Return(NoValue),
               <<"delete_studies_id_labels_label">>)

(***************************************************************************)
(* Study.labels and the tag accessors                                        *)
(***************************************************************************)
\* self.get_main_information()['Labels']
labels(self, cl, http) ==
    LET g == get_main_information(self, cl, http)
        v == GetItem(g.out.value, "Labels")
    IN  IF g.out.kind = "raise" THEN g
        ELSE IF v.kind = "raise" THEN Result(g.self, v, g.reqs)
        ELSE Result(g.self, Return([t |-> "labels", v |-> v.value]), g.reqs)

\* Resource._get_main_dicom_tag_value: the tag of the 'MainDicomTags' of the
\* main information, TagDoesNotExistError when the tag is not there
_get_main_dicom_tag_value(self, cl, http, tag) ==
    LET g == get_main_information(self, cl, http)
        tags == GetItem(g.out.value, "MainDicomTags")
    IN  IF g.out.kind = "raise" THEN g
        ELSE IF tags.kind = "raise"
        THEN Result(g.self,
                    IF tags.exc = "KeyError"
                    THEN Raise("TagDoesNotExistError", <<"no", tag, "tag">>)
                    ELSE tags,
                    g.reqs)
        ELSE IF tag \in DOMAIN tags.value
        THEN Result(g.self, Return([t |-> "tag", v |-> tags.value[tag]]), g.reqs)
        ELSE Result(g.self, Raise("TagDoesNotExistError", <<"no", tag, "tag">>), g.reqs)

\* a variant that takes an empty description for a missing one
description_EmptyIsAbsent(self, cl, http) ==
    LET r == _get_main_dicom_tag_value(self, cl, http, "StudyDescription")
    IN  IF r.out.kind = "return" /\ r.out.value.v = ""
        THEN Result(r.self,
                    Raise("TagDoesNotExistError", <<"no", "StudyDescription", "tag">>),
                    r.reqs)
        ELSE r

description(self, cl, http) ==
    _get_main_dicom_tag_value(self, cl, http, "StudyDescription")

RECURSIVE ToInt(_)
\* int(digits)
ToInt(digits) ==
    IF digits = <<>> THEN 0
    ELSE 10 * ToInt(SubSeq(digits, 1, Len(digits) - 1)) + digits[Len(digits)]

\* util.make_datetime_from_dicom_date: the timestamp of a DICOM date and an
\* optional DICOM time, midnight when there is no time
make_datetime_from_dicom_date(date, time) ==
    [t |-> "datetime",
     year |-> ToInt(SubSeq(date, 1, 4)),
     month |-> ToInt(SubSeq(date, 5, 6)),
     day |-> ToInt(SubSeq(date, 7, 8)),
     hour |-> IF time = None THEN 0 ELSE ToInt(SubSeq(time[1], 1, 2)),
     minute |-> IF time = None THEN 0 ELSE ToInt(SubSeq(time[1], 3, 4)),
     second |-> IF time = None THEN 0 ELSE ToInt(SubSeq(time[1], 5, 6))]

\* a variant that absorbs the absence of the date as it does that of the time
date_AbsorbsMissingDate(self, cl, http, http2) ==
    LET d == _get_main_dicom_tag_value(self, cl, http, "StudyDate")
        tm == _get_main_dicom_tag_value(d.self, cl, http2, "StudyTime")
        reqs == d.reqs \o tm.reqs
    IN  IF d.out.kind = "raise" /\ d.out.exc # "TagDoesNotExistError" THEN d
        ELSE IF tm.out.kind = "raise" /\ tm.out.exc # "TagDoesNotExistError"
        THEN Result(tm.self, tm.out, reqs)
        ELSE Result(tm.self,
                    Return(make_datetime_from_dicom_date(
                               IF d.out.kind = "raise" THEN <<1, 9, 7, 0, 0, 1, 0, 1>>
                               ELSE d.out.value.v,
                               IF tm.out.kind = "raise" THEN None
                               ELSE Some(tm.out.value.v))),
                    reqs)

\* Study.date; http and http2 are the answers to its first and second request
\* a variant that reads the main information once and takes both tags from it
date_OneSnapshot(self, cl, http, http2) ==
    LET d == _get_main_dicom_tag_value([self EXCEPT !.lock = TRUE], cl, http,
                                       "StudyDate")
        tm == _get_main_dicom_tag_value(d.self, cl, http2, "StudyTime")
        reqs == d.reqs \o tm.reqs
        after == IF self.lock THEN tm.self ELSE self
    IN  IF d.out.kind = "raise" THEN Result(IF self.lock THEN d.self ELSE self,
                                            d.out, d.reqs)
        ELSE IF tm.out.kind = "raise"
        THEN IF tm.out.exc = "TagDoesNotExistError"
             THEN Result(after,
                         Return(make_datetime_from_dicom_date(d.out.value.v, None)),
                         reqs)
             ELSE Result(after, tm.out, reqs)
        ELSE Result(after,
                    Return(make_datetime_from_dicom_date(d.out.value.v,
                                                         Some(tm.out.value.v))),
                    reqs)

date(self, cl, http, http2) ==
    LET d == _get_main_dicom_tag_value(self, cl, http, "StudyDate")
        tm == _get_main_dicom_tag_value(d.self, cl, http2, "StudyTime")
        reqs == d.reqs \o tm.reqs
    IN  IF d.out.kind = "raise" THEN d
        ELSE IF tm.out.kind = "raise"
        THEN IF tm.out.exc = "TagDoesNotExistError"
             THEN Result(tm.self,
                         Return(make_datetime_from_dicom_date(d.out.value.v, None)),
                         reqs)
             ELSE Result(tm.self, tm.out, reqs)
        ELSE Result(tm.self,
                    Return(make_datetime_from_dicom_date(d.out.value.v,
                                                         Some(tm.out.value.v))),
                    reqs)

\* a caller of a shared Study that is in no call
Callers == {1, 2}
IdleCaller == [pc |-> "idle", op |-> "none", r |-> None, nreqs |-> 0,
               out |-> Return(NoValue)]
\* no job handle is in use
NoJob == [pc |-> "none"]

(***************************************************************************)
(* Bookkeeping shared by the actions.                                        *)
(***************************************************************************)
\* the requests of one operation are counted; the run stops at MaxReq requests
Requested(reqs) ==
    /\ nreq + Len(reqs) <= MaxReq
    /\ nreq' = nreq + Len(reqs)

\* a successful fetch of the study's main information is remembered
Fetched(studyFetch) ==
    IF studyFetch # None /\ studyFetch[1].kind = "return"
    THEN /\ okFetches' = okFetches + 1
         /\ firstFetched' = IF okFetches = 0 THEN Some(studyFetch[1].value)
                            ELSE firstFetched
    ELSE UNCHANGED <<okFetches, firstFetched>>

\* what the caller sees of an operation
\* (args: the arguments of the call, if it takes some; sent: the body of the
\* request it made, if it sent one)
Seen(op, out, http, reqs, args, sent) ==
    [op |-> op, out |-> out, http |-> http, reqs |-> reqs, args |-> args,
     sent |-> sent]

(***************************************************************************)
(* The caller's operations.                                                  *)
(***************************************************************************)
GetMainInformation ==
    \E http \in StudyHttp :
        LET r == get_main_information(study, client, http)
        IN  /\ Requested(r.reqs)
            /\ study' = r.self
            /\ ret' = Seen("get_main_information", r.out, http, r.reqs, None, None)
            /\ Fetched(IF r.reqs = <<>> THEN None ELSE Some(get_studies_id(client, http)))
            /\ UNCHANGED <<elsewhere, client, nodes, lists, seriesRets>>

SeriesAccessor ==
    \E http \in StudyHttp :
        LET r == series(study, client, http, nodes, lists)
        IN  /\ Requested(r.reqs)
            /\ Len(r.nodes) <= MaxNodes
            /\ Len(r.lists) <= MaxLists
            /\ study' = r.self
            /\ nodes' = r.nodes
            /\ lists' = r.lists
            /\ ret' = Seen("series", r.out, http, r.reqs, None, None)
            /\ seriesRets' = IF r.out.kind = "return"
                             THEN seriesRets \cup {r.out.value.ref}
                             ELSE seriesRets
            /\ Fetched(IF r.reqs = <<>> THEN None ELSE Some(get_studies_id(client, http)))
            /\ UNCHANGED <<elsewhere, client>>

\* the caller reads the instances of a Series object it got from the Study
SeriesInstances ==
    \E a \in 1..Len(nodes) :
        \E http \in SeriesHttp(nodes[a].id_) :
            LET r == series_instances(nodes[a], client, http)
            IN  /\ Requested(r.reqs)
                /\ nodes' = [nodes EXCEPT ![a] = r.self]
                /\ ret' = Seen("instances", r.out, http, r.reqs, None, None)
                /\ UNCHANGED <<elsewhere, study, client, lists, okFetches, firstFetched, seriesRets>>

RemoveEmptySeries ==
    LET r == remove_empty_series(study, nodes, lists)
    IN  /\ Len(r.lists) <= MaxLists
        /\ study' = r.self
        /\ nodes' = r.nodes
        /\ lists' = r.lists
        /\ ret' = Seen("remove_empty_series", r.out, HttpRaise("none"), r.reqs, None, None)
        /\ Requested(r.reqs)
        /\ UNCHANGED <<elsewhere, client, okFetches, firstFetched, seriesRets>>

\* an operation that constructs nothing and fetches no main information
Plain(op, r, http, args, sent) ==
    /\ Requested(r.reqs)
    /\ study' = r.self
    /\ ret' = Seen(op, r.out, http, r.reqs, args, sent)
    /\ UNCHANGED <<elsewhere, client, nodes, lists, okFetches, firstFetched, seriesRets>>

Anonymize ==
    \E args \in AnonymizeArgs :
        LET data == AnonymizeData(args)
        IN  \E http \in AnonymizeHttp(data) :
                Plain("anonymize", anonymize(study, client, http), http, Some(args),
                      Some(data))

AnonymizeAsJob ==
    \E args \in AnonymizeArgs :
        LET data == AnonymizeAsJobData(args)
        IN  \E http \in AnonymizeHttp(data) :
                Plain("anonymize_as_job", anonymize_as_job(study, client, http), http,
                      Some(args), Some(data))

GetZip ==
    \E http \in ArchiveHttp : Plain("get_zip", get_zip(study, client, http), http, None, None)

AddLabel ==
    \E http \in LabelHttp : Plain("add_label", add_label(study, client, http), http, None, None)

RemoveLabel ==
    \E http \in LabelHttp :
        Plain("remove_label", remove_label(study, client, http), http, None, None)

\* an accessor that reads the main information and builds no object
Reading(op, r, http) ==
    /\ Requested(r.reqs)
    /\ study' = r.self
    /\ ret' = Seen(op, r.out, http, r.reqs, None, None)
    /\ Fetched(IF r.reqs = <<>> THEN None ELSE Some(get_studies_id(client, http)))
    /\ UNCHANGED <<elsewhere, client, nodes, lists, seriesRets>>

Labels ==
    \E http \in StudyHttp : Reading("labels", labels(study, client, http), http)

Description ==
    \E http \in StudyHttp :
        Reading("description", description(study, client, http), http)

\* the `date` accessor reads the main information twice; the successful fetches
\* among its requests are remembered; a second answer is drawn only where a
\* second request can be made (no cache, and the first fetch gave a value)
Date ==
    \E http \in StudyHttp :
      \E http2 \in IF study.lock \/ get_studies_id(client, http).kind = "raise"
                   THEN {http} ELSE StudyHttp :
      \E r \in {date(study, client, http, http2)} :
        LET f1 == get_studies_id(client, http)
            f2 == get_studies_id(client, http2)
            ok1 == Len(r.reqs) >= 1 /\ f1.kind = "return"
            ok2 == Len(r.reqs) = 2 /\ f2.kind = "return"
        IN  /\ Requested(r.reqs)
            /\ study' = r.self
            /\ ret' = Seen("date", r.out, http, r.reqs, None, None)
                          @@ ("http2" :> IF Len(r.reqs) = 2 THEN http2
                                         ELSE HttpRaise("none"))
            /\ okFetches' = okFetches + (IF ok1 THEN 1 ELSE 0) + (IF ok2 THEN 1 ELSE 0)
            /\ firstFetched' = IF okFetches # 0 THEN firstFetched
                               ELSE IF ok1 THEN Some(f1.value)
                               ELSE IF ok2 THEN Some(f2.value)
                               ELSE firstFetched
            /\ UNCHANGED <<elsewhere, client, nodes, lists, seriesRets>>

Init ==
    /\ study \in {[id_ |-> StudyId, lock |-> l, _information |-> None,
                   _child_resources |-> None] : l \in BOOLEAN}
    /\ client \in {[return_raw_response |-> b] : b \in BOOLEAN}
    /\ nodes = <<>>
    /\ lists = <<>>
    /\ nreq = 0
    /\ ret = Seen("init", Return(NoValue), HttpRaise("none"), <<>>, None, None)
    /\ okFetches = 0
    /\ firstFetched = None
    /\ seriesRets = {}
    /\ callers = [c \in Callers |-> IdleCaller]
    /\ written = <<>>
    /\ job = NoJob

Next ==
    \/ GetMainInformation
    \/ SeriesAccessor
    \/ SeriesInstances
    \/ RemoveEmptySeries
    \/ Anonymize
    \/ AnonymizeAsJob
    \/ GetZip
    \/ AddLabel
    \/ RemoveLabel
    \/ Labels
    \/ Description
    \/ Date

Spec == Init /\ [][Next]_vars

(***************************************************************************)
(* The transport methods on their own: a caller invokes _get, _post, _put    *)
(* and _delete of a client, and the server answers as it likes.              *)
(***************************************************************************)
\* the responses a server may give, and the failures of the connection
TransportHttp ==
    {HttpResponse(s, c, [content |-> "payload"]) :
         s \in {199, 200, 204, 299, 300, 404, 500},
         c \in {"application/json", "application/json; charset=utf-8", "text/plain",
                "text/plain; charset=utf-8", "application/zip"}}
        \cup {HttpResponseNoType(s, [content |-> "payload"]) : s \in {200, 204, 404}}
        \cup {TimedOut, Unreachable}

\* one invocation of a transport method: one request, whose answer is `http`
Invoke(op, out, http) ==
    /\ Requested(<<op>>)
    /\ ret' = Seen(op, out, http, <<op>>, None, None)
    /\ UNCHANGED <<elsewhere, study, client, nodes, lists, okFetches, firstFetched,
                   seriesRets>>

TransportGet == \E http \in TransportHttp : Invoke("_get", _get(client, http), http)
TransportDelete ==
    \E http \in TransportHttp : Invoke("_delete", _delete(client, http), http)
TransportPost == \E http \in TransportHttp : Invoke("_post", _post(client, http), http)
TransportPut == \E http \in TransportHttp : Invoke("_put", _put(client, http), http)

TransportNext == TransportGet \/ TransportDelete \/ TransportPost \/ TransportPut

TransportSpec == Init /\ [][TransportNext]_vars

(***************************************************************************)
(* A Study shared by concurrent callers.  A call of get_main_information or  *)
(* of `series` proceeds statement by statement; between two statements of    *)
(* one caller the other callers may run.  callers[c].pc is the statement     *)
(* caller c is at, callers[c].r the value it holds in a local variable.      *)
(***************************************************************************)
\* GET /studies/{id} as the callers of the shared Study are answered
RaceStudyHttp ==
    {HttpResponse(200, "application/json", i) : i \in StudyInfos} \cup {NotFound}

\* self._information = <the fetched value>: a variant in which a value that is
\* already there is kept
StoreInformation_KeepsFirst(self, value) ==
    IF self._information = None THEN [self EXCEPT !._information = Some(value)]
    ELSE self

\* self._information = self.client.get_studies_id(self.id_), the assignment
StoreInformation(self, value) == [self EXCEPT !._information = Some(value)]

\* a variant that never takes the children for cached
ChildrenCached_Never(self) == FALSE

\* `self.lock` and not `self._child_resources is None`
ChildrenCached(self) == self.lock /\ self._child_resources # None

\* self._child_resources = [...], the assignment
StoreChildren(self, l) == [self EXCEPT !._child_resources = Some(l)]

\* caller c's call ends with the outcome `out`
Finish(c, out, made) ==
    callers' = [callers EXCEPT ![c] = [pc |-> "idle", op |-> @.op, r |-> None,
                                       nreqs |-> @.nreqs + made, out |-> out]]
\* caller c moves to another statement
Goto(c, pc, r) == callers' = [callers EXCEPT ![c].pc = pc, ![c].r = r]

\* get_main_information hands `value` to the code that called it: to the caller,
\* or to `series`, which takes the 'Series' array of it
Deliver(c, value, made) ==
    IF callers[c].op = "get_main_information" THEN Finish(c, Return(value), made)
    ELSE LET ids == GetItem(value, "Series")
         IN  IF ids.kind = "raise" THEN Finish(c, ids, made)
             ELSE callers' = [callers EXCEPT ![c].pc = "series_build",
                                             ![c].r = Some(ids.value),
                                             ![c].nreqs = @ + made]

\* an idle caller calls get_main_information() or reads `series`
RaceCall(c) ==
    /\ callers[c].pc = "idle"
    /\ \E op \in {"get_main_information", "series"} :
           callers' = [callers EXCEPT ![c] =
                           [pc |-> IF op = "series" THEN "series_test" ELSE "gmi_test",
                            op |-> op, r |-> None, nreqs |-> 0,
                            out |-> Return(NoValue)]]
    /\ UNCHANGED <<study, client, nodes, lists, nreq, ret, okFetches, firstFetched,
                   seriesRets, written, job>>

\* `if self.lock: if self._child_resources is None:` of `series`
RaceSeriesTest(c) ==
    /\ callers[c].pc = "series_test"
    /\ Goto(c, IF ChildrenCached(study) THEN "series_ret" ELSE "gmi_test", None)
    /\ UNCHANGED <<study, client, nodes, lists, nreq, ret, okFetches, firstFetched,
                   seriesRets, written, job>>

\* a variant that never takes the main information for cached
InformationCached_Never(self) == FALSE

\* `self.lock` and not `self._information is None`
InformationCached(self) == self.lock /\ self._information # None

\* `if self.lock: if self._information is None:` of get_main_information
RaceInformationTest(c) ==
    /\ callers[c].pc = "gmi_test"
    /\ Goto(c, IF InformationCached(study) THEN "gmi_ret" ELSE "gmi_fetch", None)
    /\ UNCHANGED <<study, client, nodes, lists, nreq, ret, okFetches, firstFetched,
                   seriesRets, written, job>>

\* self.client.get_studies_id(self.id_): the request and its answer, one of
\* `answers`
RaceFetchFrom(c, answers) ==
    /\ callers[c].pc = "gmi_fetch"
    /\ Requested(<<"get_studies_id">>)
    /\ \E http \in answers :
           LET r == get_studies_id(client, http)
           IN  /\ IF r.kind = "raise" THEN Finish(c, r, 1)
                  ELSE IF study.lock
                  THEN callers' = [callers EXCEPT ![c].pc = "gmi_store",
                                                  ![c].r = Some(r.value),
                                                  ![c].nreqs = @ + 1]
                  ELSE Deliver(c, r.value, 1)
               /\ Fetched(Some(r))
    /\ UNCHANGED <<study, client, nodes, lists, ret, seriesRets, written, job>>

RaceFetch(c) == RaceFetchFrom(c, RaceStudyHttp)

\* self._information = <the fetched value>
RaceStore(c) ==
    /\ callers[c].pc = "gmi_store"
    /\ study' = StoreInformation(study, callers[c].r[1])
    /\ written' = Append(written, callers[c].r[1])
    /\ Goto(c, "gmi_ret", None)
    /\ UNCHANGED <<client, nodes, lists, nreq, ret, okFetches, firstFetched,
                   seriesRets, job>>

\* return self._information
RaceInformationReturn(c) ==
    /\ callers[c].pc = "gmi_ret"
    /\ Deliver(c, study._information[1], 0)
    /\ UNCHANGED <<study, client, nodes, lists, nreq, ret, okFetches, firstFetched,
                   seriesRets, written, job>>

\* [Series(i, self.client, self.lock) for i in series_ids], held for the
\* assignment when the Study is locked, returned otherwise
RaceBuild(c) ==
    /\ callers[c].pc = "series_build"
    /\ LET ids == callers[c].r[1]
           l == Len(lists) + 1
       IN  /\ Len(nodes) + Len(ids) <= MaxNodes
           /\ l <= MaxLists
           /\ nodes' = nodes \o BuildSeries(ids, client, study.lock)
           /\ lists' = Append(lists, NewAddrs(nodes, Len(ids)))
           /\ IF study.lock
              THEN /\ Goto(c, "series_store", Some(l))
                   /\ UNCHANGED seriesRets
              ELSE /\ Finish(c, Return(ListRef(l)), 0)
                   /\ seriesRets' = seriesRets \cup {l}
    /\ UNCHANGED <<study, client, nreq, ret, okFetches, firstFetched, written, job>>

\* self._child_resources = <the list built>
RaceStoreChildren(c) ==
    /\ callers[c].pc = "series_store"
    /\ study' = StoreChildren(study, callers[c].r[1])
    /\ Goto(c, "series_ret", None)
    /\ UNCHANGED <<client, nodes, lists, nreq, ret, okFetches, firstFetched,
                   seriesRets, written, job>>

\* return self._child_resources
RaceSeriesReturn(c) ==
    /\ callers[c].pc = "series_ret"
    /\ Finish(c, Return(ListRef(study._child_resources[1])), 0)
    /\ seriesRets' = seriesRets \cup {study._child_resources[1]}
    /\ UNCHANGED <<study, client, nodes, lists, nreq, ret, okFetches, firstFetched,
                   written, job>>

\* a shared Study and a client that decodes the responses
RaceInit ==
    /\ Init
    /\ ~client.return_raw_response

RaceNext ==
    \E c \in Callers :
        \/ RaceCall(c)
        \/ RaceSeriesTest(c)
        \/ RaceInformationTest(c)
        \/ RaceFetch(c)
        \/ RaceStore(c)
        \/ RaceInformationReturn(c)
        \/ RaceBuild(c)
        \/ RaceStoreChildren(c)
        \/ RaceSeriesReturn(c)

RaceSpec == RaceInit /\ [][RaceNext]_vars

(***************************************************************************)
(* remove_empty_series() of a shared lock=true Study, statement by          *)
(* statement, next to the callers that read `series`.                        *)
(***************************************************************************)
\* a variant that takes a child whose instances were never read for empty
Kept_DropsUnread(old, nds) ==
    FilterSeq(old, {a \in Range(old) :
                        nds[a]._child_resources \notin {None, Some(<<>>)}})

\* [series for series in self._child_resources if series._child_resources != []]
Kept(old, nds) ==
    FilterSeq(old, {a \in Range(old) : nds[a]._child_resources # Some(<<>>)})

\* GET /studies/{id} for a study that has two series
PruneStudyHttp ==
    {HttpResponse(200, "application/json", i) :
         i \in {j \in StudyInfos : "Series" \in DOMAIN j /\ Len(j.Series) = 2}}
\* GET /series/{id} for a series that has no instance
PruneSeriesHttp(id) == {HttpResponse(200, "application/json", SeriesInfo(id, <<>>))}

\* an idle caller reads `series` or calls remove_empty_series()
PruneCall(c) ==
    /\ callers[c].pc = "idle"
    /\ \E op \in {"series", "remove_empty_series"} :
           callers' = [callers EXCEPT ![c] =
                           [pc |-> IF op = "series" THEN "series_test" ELSE "res_test",
                            op |-> op, r |-> None, nreqs |-> 0,
                            out |-> Return(NoValue)]]
    /\ UNCHANGED <<study, client, nodes, lists, nreq, ret, okFetches, firstFetched,
                   seriesRets, written, job>>

\* `if self._child_resources is None: return`, and the list the loop goes over
PruneTest(c) ==
    /\ callers[c].pc = "res_test"
    /\ IF study._child_resources = None THEN Finish(c, Return(NoValue), 0)
       ELSE Goto(c, "res_loop", study._child_resources)
    /\ UNCHANGED <<study, client, nodes, lists, nreq, ret, okFetches, firstFetched,
                   seriesRets, written, job>>

\* `for series in self._child_resources: series.remove_empty_instances()`
PruneLoop(c) ==
    /\ callers[c].pc = "res_loop"
    /\ nodes' = [a \in 1..Len(nodes) |->
                     IF a \in Range(lists[callers[c].r[1]])
                     THEN remove_empty_instances(nodes[a]) ELSE nodes[a]]
    /\ Goto(c, "res_filter", None)
    /\ UNCHANGED <<study, client, lists, nreq, ret, okFetches, firstFetched,
                   seriesRets, written, job>>

\* the list comprehension over the children the Study has now, held for the
\* assignment
PruneFilter(c) ==
    /\ callers[c].pc = "res_filter"
    /\ Len(lists) + 1 <= MaxLists
    /\ lists' = Append(lists, Kept(lists[study._child_resources[1]], nodes))
    /\ Goto(c, "res_store", Some(Len(lists) + 1))
    /\ UNCHANGED <<study, client, nodes, nreq, ret, okFetches, firstFetched,
                   seriesRets, written, job>>

\* self._child_resources = <the list kept>
PruneStore(c) ==
    /\ callers[c].pc = "res_store"
    /\ study' = StoreChildren(study, callers[c].r[1])
    /\ Finish(c, Return(NoValue), 0)
    /\ UNCHANGED <<client, nodes, lists, nreq, ret, okFetches, firstFetched,
                   seriesRets, written, job>>

\* self.client.get_studies_id(self.id_) for a study that has two series
PruneFetch(c) == RaceFetchFrom(c, PruneStudyHttp)

\* a caller that is in no call of the Study reads the `instances` of a child
\* and finds none
PruneInstances ==
    /\ \E c \in Callers : callers[c].pc = "idle"
    /\ \E a \in 1..Len(nodes) :
           \E http \in PruneSeriesHttp(nodes[a].id_) :
               \E r \in {series_instances(nodes[a], client, http)} :
                   /\ r.reqs # <<>>
                   /\ Requested(r.reqs)
                   /\ nodes' = [nodes EXCEPT ![a] = r.self]
    /\ UNCHANGED <<study, client, lists, ret, okFetches, firstFetched, seriesRets,
                   callers, written, job>>

\* a shared Study that keeps what it fetched
PruneInit ==
    /\ RaceInit
    /\ study.lock

PruneNext ==
    \/ \E c \in Callers :
           \/ PruneCall(c)
           \/ RaceSeriesTest(c)
           \/ RaceInformationTest(c)
           \/ PruneFetch(c)
           \/ RaceStore(c)
           \/ RaceInformationReturn(c)
           \/ RaceBuild(c)
           \/ RaceStoreChildren(c)
           \/ RaceSeriesReturn(c)
           \/ PruneTest(c)
           \/ PruneLoop(c)
           \/ PruneFilter(c)
           \/ PruneStore(c)
    \/ PruneInstances

PruneSpec == PruneInit /\ [][PruneNext]_vars

(***************************************************************************)
(* The job handle (pyorthanc/jobs.py) on top of the client's job endpoints.  *)
(* job.server is the state the server has the job in; job.pc is where the    *)
(* caller of the handle is: outside a call, or in wait_until_completion      *)
(* before a poll or before a sleep.  Time passes in poll intervals:          *)
(* job.elapsed counts the intervals slept in the current wait.               *)
(***************************************************************************)
\* the longest timeout a caller passes, in poll intervals
MaxWait == 2

JobId == "j"
JobStates == {"Pending", "Running", "Paused", "Success", "Failure"}
Terminal == {"Success", "Failure"}
Transitions == {"cancel", "pause", "resume", "resubmit"}

\* GET /jobs/{id}: the job as the server reports it
JobInfo(s) ==
    [ID |-> JobId, State |-> s,
     ErrorDescription |-> IF s = "Failure" THEN "Internal error" ELSE "Success"]
JobHttp(s) == {HttpResponse(200, "application/json", JobInfo(s)), NotFound, TimedOut}

\* the states the server moves a job to by itself
ServerNext(s) ==
    CASE s = "Pending" -> {"Running"}
      [] s = "Running" -> {"Success", "Failure"}
      [] OTHER -> {}

\* the transitions the server accepts in state s, and the state they lead to
Allowed(op, s) ==
    CASE op = "cancel" -> s \in {"Pending", "Running", "Paused"}
      [] op = "pause" -> s \in {"Pending", "Running"}
      [] op = "resume" -> s = "Paused"
      [] op = "resubmit" -> s = "Failure"
After(op, s) ==
    CASE op = "cancel" -> "Failure"
      [] op = "pause" -> "Paused"
      [] op = "resume" -> "Pending"
      [] op = "resubmit" -> "Pending"

\* POST /jobs/{id}/{cancel,pause,resume,resubmit}: accepted, rejected, or no
\* answer in time
TransitionHttp(op, s) ==
    (IF Allowed(op, s) THEN {HttpResponse(200, "application/json", <<>>)}
     ELSE {HttpResponse(400, "application/json", ErrorBody(400))})
        \cup {TimedOut}
Accepted(http) == http.kind = "response" /\ 200 <= http.status /\ http.status < 300

\* a variant that decodes the answer whatever its status
get_jobs_id_Lenient(cl, http) == _get_NoStatusCheck(cl, http)

get_jobs_id(cl, http) == _get(cl, http)

\* a variant that takes an HTTP error for an empty answer
post_jobs_id_cancel_Quiet(cl, http) ==
    LET r == _post(cl, http)
    IN  IF r.kind = "raise" /\ r.exc = "HTTPError"
        THEN Return([t |-> "json", v |-> <<>>])
        ELSE r

post_jobs_id_cancel(cl, http) == _post(cl, http)
post_jobs_id_pause(cl, http) == _post(cl, http)
post_jobs_id_resubmit(cl, http) == _post(cl, http)
post_jobs_id_resume(cl, http) == _post(cl, http)

\* the endpoint of a transition and the client method for it
Endpoint(op) ==
    CASE op = "cancel" -> "post_jobs_id_cancel"
      [] op = "pause" -> "post_jobs_id_pause"
      [] op = "resume" -> "post_jobs_id_resume"
      [] op = "resubmit" -> "post_jobs_id_resubmit"
PostJob(op, cl, http) ==
    CASE op = "cancel" -> post_jobs_id_cancel(cl, http)
      [] op = "pause" -> post_jobs_id_pause(cl, http)
      [] op = "resume" -> post_jobs_id_resume(cl, http)
      [] op = "resubmit" -> post_jobs_id_resubmit(cl, http)

\* Job.state, a variant that answers from the state read before
job_state_Cached(self, cl, http) ==
    IF self.reads # <<>>
    THEN [out |-> Return(self.reads[Len(self.reads)]), reqs |-> <<>>]
    ELSE LET info == get_jobs_id(cl, http)
         IN  [out |-> IF info.kind = "raise" THEN info
                      ELSE GetItem(info.value, "State"),
              reqs |-> <<"get_jobs_id">>]

\* Job.state: the 'State' of the job fetched now
job_state(self, cl, http) ==
    LET info == get_jobs_id(cl, http)
    IN  [out |-> IF info.kind = "raise" THEN info ELSE GetItem(info.value, "State"),
         reqs |-> <<"get_jobs_id">>]

\* Job.wait_until_completion after a poll that gave `st` from the job `info`:
\* the outcome that ends the wait, or None when the wait goes on
wait_outcome(self, info, st) ==
    IF st.kind = "raise" THEN Some(st)
    ELSE IF st.value = "Success" THEN Some(Return(NoValue))
    ELSE IF st.value = "Failure"
    THEN Some(Raise("JobFailedError", <<info.value.v.ErrorDescription>>))
    ELSE IF self.elapsed >= self.timeout THEN Some(Raise("TimeoutError", <<>>))
    ELSE None

\* the answer of a transition request tells that the server rejected it
Rejected(r) ==
    \/ r.kind = "raise" /\ r.exc = "HTTPError"
    \/ r.kind = "return" /\ r.value.t = "raw" /\ ~Accepted(r.value.v)

\* Job.cancel, Job.pause, Job.resume, Job.resubmit, given the client's answer
transition(r) ==
    IF Rejected(r) THEN Raise("InvalidJobStateError", <<"rejected">>)
    ELSE IF r.kind = "raise" THEN r
    ELSE Return(NoValue)

\* the server moves the job on
JobServerMoves ==
    /\ \E s \in ServerNext(job.server) : job' = [job EXCEPT !.server = s]
    /\ UNCHANGED <<study, client, nodes, lists, nreq, ret, okFetches, firstFetched,
                   seriesRets, callers, written>>

\* the caller reads job.state
JobState ==
    /\ job.pc = "idle"
    /\ Len(job.reads) < MaxReq
    /\ \E http \in JobHttp(job.server) :
           LET r == job_state(job, client, http)
           IN  /\ Requested(r.reqs)
               /\ ret' = Seen("state", r.out, http, r.reqs, None, None)
               /\ job' = [job EXCEPT !.reads = IF r.out.kind = "return"
                                               THEN Append(@, r.out.value) ELSE @]
    /\ UNCHANGED <<study, client, nodes, lists, okFetches, firstFetched, seriesRets,
                   callers, written>>

\* the caller calls job.wait_until_completion(poll_interval, timeout)
JobWait ==
    /\ job.pc = "idle"
    /\ \E t \in 1..MaxWait :
           job' = [job EXCEPT !.pc = "poll", !.timeout = t, !.elapsed = 0,
                              !.seen = <<>>, !.polls = 0]
    /\ ret' = Seen("waiting", Return(NoValue), HttpRaise("none"), <<>>, None, None)
    /\ UNCHANGED <<study, client, nodes, lists, nreq, okFetches, firstFetched,
                   seriesRets, callers, written>>

\* one poll of the wait
JobPoll ==
    /\ job.pc = "poll"
    /\ Requested(<<"get_jobs_id">>)
    /\ \E http \in JobHttp(job.server) :
           LET info == get_jobs_id(client, http)
               st == IF info.kind = "raise" THEN info
                     ELSE GetItem(info.value, "State")
               end == wait_outcome(job, info, st)
           IN  /\ job' = [job EXCEPT !.pc = IF end = None THEN "sleep" ELSE "idle",
                                     !.seen = IF st.kind = "return"
                                              THEN Append(@, st.value) ELSE @,
                                     !.polls = @ + 1]
               /\ ret' = IF end = None THEN ret
                         ELSE Seen("wait_until_completion", end[1], http,
                                   [i \in 1..(job.polls + 1) |-> "get_jobs_id"],
                                   None, None)
    /\ UNCHANGED <<study, client, nodes, lists, okFetches, firstFetched, seriesRets,
                   callers, written>>

\* the wait sleeps for one poll interval
JobSleep ==
    /\ job.pc = "sleep"
    /\ job' = [job EXCEPT !.pc = "poll", !.elapsed = @ + 1]
    /\ UNCHANGED <<study, client, nodes, lists, nreq, ret, okFetches, firstFetched,
                   seriesRets, callers, written>>

\* the caller asks for a transition of the job
JobTransition ==
    /\ job.pc = "idle"
    /\ \E op \in Transitions :
           /\ Requested(<<Endpoint(op)>>)
           /\ \E http \in TransitionHttp(op, job.server) :
                  /\ ret' = Seen(op, transition(PostJob(op, client, http)), http,
                                 <<Endpoint(op)>>, None, None)
                  /\ job' = [job EXCEPT !.server = IF Accepted(http) THEN After(op, @)
                                                   ELSE @]
    /\ UNCHANGED <<study, client, nodes, lists, okFetches, firstFetched, seriesRets,
                   callers, written>>

\* a job the server has just been given, and its handle
JobInit ==
    /\ study \in {[id_ |-> StudyId, lock |-> l, _information |-> None,
                   _child_resources |-> None] : l \in BOOLEAN}
    /\ client \in {[return_raw_response |-> b] : b \in BOOLEAN}
    /\ nodes = <<>>
    /\ lists = <<>>
    /\ nreq = 0
    /\ ret = Seen("init", Return(NoValue), HttpRaise("none"), <<>>, None, None)
    /\ okFetches = 0
    /\ firstFetched = None
    /\ seriesRets = {}
    /\ callers = [c \in Callers |-> IdleCaller]
    /\ written = <<>>
    /\ job \in {[pc |-> "idle", server |-> s, timeout |-> 0, elapsed |-> 0,
                 seen |-> <<>>, reads |-> <<>>, polls |-> 0] :
                    s \in {"Pending", "Running"}}

JobNext ==
    \/ JobServerMoves
    \/ JobState
    \/ JobWait
    \/ JobPoll
    \/ JobSleep
    \/ JobTransition

JobSpec == JobInit /\ [][JobNext]_vars

(***************************************************************************)
(* The claims.                                                               *)
(***************************************************************************)
\* the last operation was `op` and returned normally
Returned(op) == ret.op = op /\ ret.out.kind = "return"
\* the last operation was `op` and raised
Raised(op) == ret.op = op /\ ret.out.kind = "raise"
\* s is t with some elements left out, the others in t's order
IsSubSeq(s, t) == s = FilterSeq(t, Range(s))

\* C1, state part: with lock=true at most one fetch of the main information ever
\* succeeds, the cache holds the value of that first fetch, and every call of
\* get_main_information that returns, returns that value.
C1_State ==
    study.lock =>
        /\ okFetches <= 1
        /\ study._information = firstFetched
        /\ Returned("get_main_information") =>
               /\ okFetches = 1
               /\ ret.out.value = firstFetched[1]

\* C1, step part: once a fetch has succeeded, no call of get_main_information
\* issues a request.
C1_Step ==
    (study.lock /\ okFetches >= 1 /\ ret'.op = "get_main_information") => nreq' = nreq

\* C1: for a Study with lock=true used by one caller, the fetch get_studies_id
\* succeeds exactly once over any sequence of get_main_information() calls (in the
\* first call that succeeds), no request is made after it, and every call returns
\* the value of that first fetch, even when the server's answer has changed.
C1_CacheDeterminism == []C1_State /\ [][C1_Step]_vars

\* a cached call returned the first value while the server would now answer
\* with another one
C1_Witness ==
    /\ study.lock
    /\ Returned("get_main_information")
    /\ ret.reqs = <<>>
    /\ ret.http.kind = "response"
    /\ ret.http.status = 200
    /\ get_studies_id(client, ret.http) # ret.out

\* C2: for a Study with lock=false, every get_main_information() call makes exactly
\* one fetch and its outcome is the outcome of that fetch (the n-th call gives the
\* server's n-th answer); _information stays unset.
C2_NoCacheDeterminism ==
    ~study.lock =>
        /\ study._information = None
        /\ ret.op = "get_main_information" =>
               /\ ret.reqs = <<"get_studies_id">>
               /\ ret.out = get_studies_id(client, ret.http)

\* a second successful call returned a value that differs from the first one
C2_Witness ==
    /\ ~study.lock
    /\ Returned("get_main_information")
    /\ okFetches >= 2
    /\ ret.out.value # firstFetched[1]

\* C3 as stated: with lock=true, any two calls of `series` return the same
\* sequence (the same elements in the same order).
C3_SameSequenceAlways ==
    study.lock => \A a, b \in seriesRets : lists[a] = lists[b]

\* C3 amended, state part: with lock=true, `series` returns the Study's cached
\* sequence object itself; any later result holds, in the same order, child
\* objects of every earlier result and no other object; the only Series objects
\* that exist are those of the first materialization.
C3_State ==
    study.lock =>
        /\ Returned("series") => study._child_resources = Some(ret.out.value.ref)
        /\ \A a, b \in seriesRets : a <= b => IsSubSeq(lists[b], lists[a])
        /\ lists # <<>> => Len(nodes) = Len(lists[1])

\* C3 amended, step part: the cached sequence, once set, is replaced by
\* remove_empty_series() alone, so two `series` calls with no
\* remove_empty_series() between them return the same sequence object.
C3_Step ==
    (/\ study.lock
     /\ study._child_resources # None
     /\ study'._child_resources # study._child_resources)
        => ret'.op = "remove_empty_series"

\* C3 (amended): for a Study with lock=true used by one caller, two `series`
\* calls with no remove_empty_series() call between them return the same cached
\* sequence object; after remove_empty_series() the accessor returns the pruned
\* sequence, which holds, in the same order, child objects of the earlier results,
\* so a cache populated on a child is seen on that child in every later result
\* that still holds it.
C3_ChildIdentityStability == []C3_State /\ [][C3_Step]_vars

\* a later `series` call, served from the cache, returns a child whose instance
\* list was populated through an earlier result
C3_Witness ==
    /\ study.lock
    /\ Returned("series")
    /\ ret.reqs = <<>>
    /\ \E a \in Range(lists[ret.out.value.ref]) : nodes[a]._child_resources # None

\* C4, state part: with lock=false, _child_resources stays unset, every `series`
\* call makes one fetch, and no Series object belongs to two results.
C4_State ==
    ~study.lock =>
        /\ study._child_resources = None
        /\ ret.op = "series" => ret.reqs = <<"get_studies_id">>
        /\ \A a, b \in seriesRets :
               a # b => Range(lists[a]) \cap Range(lists[b]) = {}

\* C4, step part: the sequence a `series` call returns is a new object, and so is
\* each Series in it.
C4_Step ==
    (~study.lock /\ ret'.op = "series" /\ ret'.out.kind = "return" /\ nreq' # nreq)
        => /\ ret'.out.value.ref \notin DOMAIN lists
           /\ \A a \in Range(lists'[ret'.out.value.ref]) : a \notin DOMAIN nodes

\* C4: for a Study with lock=false, every `series` call fetches the child IDs
\* again (one fetch per call) and returns a new sequence of new Series objects;
\* no object is shared between two results and _child_resources is never set.
C4_FreshChildren == []C4_State /\ [][C4_Step]_vars

\* two `series` calls each returned a sequence with a child in it
C4_Witness ==
    /\ ~study.lock
    /\ \E a, b \in seriesRets : a # b /\ lists[a] # <<>> /\ lists[b] # <<>>

\* C5, state part: remove_empty_series() makes no request and returns nothing.
C5_State ==
    ret.op = "remove_empty_series" => ret.reqs = <<>> /\ ret.out = Return(NoValue)

\* C5, step part: a remove_empty_series() step leaves the number of requests as
\* it is, and with _child_resources unset it leaves the Study, every Series
\* object and every list as they are.
C5_Step ==
    ret'.op = "remove_empty_series" =>
        /\ nreq' = nreq
        /\ study._child_resources = None =>
               /\ study' = study
               /\ nodes' = nodes
               /\ lists' = lists

\* C5: remove_empty_series() issues no transport call in any state of the Study
\* and changes nothing when the children were never materialized.
C5_CacheOnlyPruning == []C5_State /\ [][C5_Step]_vars

\* remove_empty_series() was called on a lock=true Study whose main information
\* is cached and whose children are not materialized
C5_Witness ==
    /\ Returned("remove_empty_series")
    /\ study._information # None
    /\ study._child_resources = None

\* C6, state part: right after remove_empty_series() on materialized children,
\* no Series of the cached list has an empty cached instance list.
C6_State ==
    (ret.op = "remove_empty_series" /\ study._child_resources # None) =>
        \A a \in Range(lists[study._child_resources[1]]) :
            nodes[a]._child_resources # Some(<<>>)

\* C6, step part: when every cached Series has an empty cached instance list,
\* remove_empty_series() leaves an empty cached child list.
C6_Step ==
    (/\ ret'.op = "remove_empty_series"
     /\ study._child_resources # None
     /\ \A a \in Range(lists[study._child_resources[1]]) :
            nodes[a]._child_resources = Some(<<>>))
        => /\ study'._child_resources # None
           /\ lists'[study'._child_resources[1]] = <<>>

\* C6: after remove_empty_series() on a Study with materialized children the
\* cached child list has no Series whose cached instance list is empty; if every
\* cached Series had an empty cached instance list, the cached child list is empty.
C6_PruningDropsEmpty == []C6_State /\ [][C6_Step]_vars

\* the Study had children, each with an empty cached instance list, and
\* remove_empty_series() emptied the cached child list
C6_Witness ==
    /\ Returned("remove_empty_series")
    /\ study._child_resources # None
    /\ lists[study._child_resources[1]] = <<>>
    /\ nodes # <<>>
    /\ \A a \in DOMAIN nodes : nodes[a]._child_resources = Some(<<>>)

\* C7, one step: a get_main_information() call whose fetch fails gives the caller
\* the error of the fetch and leaves the Study as it was; a call on a lock=true
\* Study with an unset cache makes a fetch.
C7_Step ==
    ret'.op = "get_main_information" =>
        /\ (ret'.reqs # <<>> /\ get_studies_id(client, ret'.http).kind = "raise") =>
               /\ ret'.out = get_studies_id(client, ret'.http)
               /\ study' = study
        /\ (study.lock /\ study._information = None) =>
               ret'.reqs = <<"get_studies_id">>

\* C7: when the fetch inside get_main_information() fails, the caller gets the
\* error of the fetch and the Study (its _information and _child_resources) is as
\* it was before the call; with lock=true and an unset cache, a call always
\* fetches, so the call after a failed one fetches again.
C7_FailedFetchLeavesCache == [][C7_Step]_vars

\* two calls in a row failed on a lock=true Study, each with its own fetch
C7_Witness ==
    /\ study.lock
    /\ Raised("get_main_information")
    /\ study._information = None
    /\ nreq >= 2

\* C8 as stated: a "not found" answer makes get_main_information() fail with
\* ResourceNotFoundError, and the answer is not stored.
C8_RaisesResourceNotFound ==
    (ret.op = "get_main_information" /\ ret.reqs # <<>> /\ ret.http = NotFound) =>
        /\ ret.out.kind = "raise"
        /\ ret.out.exc = "ResourceNotFoundError"
        /\ study._information = None

\* C8 (amended): with return_raw_response off, a "not found" answer makes
\* get_main_information() fail with the transport's HTTPError, and the cache only
\* ever holds the decoded body of a 2xx answer; with return_raw_response on, the
\* call returns the response object of the "not found" answer.
C8_NotFoundIsHttpError ==
    /\ (ret.op = "get_main_information" /\ ret.reqs # <<>> /\ ret.http = NotFound) =>
           IF client.return_raw_response
           THEN ret.out = Return([t |-> "raw", v |-> NotFound])
           ELSE /\ ret.out.kind = "raise"
                /\ ret.out.exc = "HTTPError"
                /\ study._information = None
    /\ (~client.return_raw_response /\ study._information # None) =>
           /\ study._information[1].t = "json"
           /\ study._information[1].v \in StudyInfos

\* the server answered "not found" and the call raised HTTPError
C8_Witness ==
    /\ Raised("get_main_information")
    /\ ret.http = NotFound
    /\ ret.out.exc = "HTTPError"

\* C9: when the transport raises a read-timeout during anonymize(), anonymize()
\* raises a ReadTimeout whose message names `.anonymize_as_job` and the client
\* timeout; nothing is returned.
C9_AnonymizeTimeoutGuidance ==
    (ret.op = "anonymize" /\ ret.http = TimedOut) =>
        /\ ret.out.kind = "raise"
        /\ ret.out.exc = "ReadTimeout"
        /\ ".anonymize_as_job" \in Range(ret.out.msg)
        /\ "client.timeout." \in Range(ret.out.msg)

\* anonymize() ran into the read-timeout
C9_Witness ==
    /\ Raised("anonymize")
    /\ ret.http = TimedOut
    /\ ret.reqs = <<"post_studies_id_anonymize">>

\* C10: an anonymize() that returns made exactly one request and returns a Study
\* whose id is the 'ID' of the answer; anonymize_as_job() makes exactly one request,
\* the POST, and when it returns, returns a Job whose id is the 'ID' of the answer.
C10_AnonymizeResult ==
    /\ Returned("anonymize") =>
           /\ ret.reqs = <<"post_studies_id_anonymize">>
           /\ ret.out.value = [t |-> "Study", id_ |-> ret.http.body.ID]
    /\ ret.op = "anonymize_as_job" => ret.reqs = <<"post_studies_id_anonymize">>
    /\ Returned("anonymize_as_job") =>
           ret.out.value = [t |-> "Job", id_ |-> ret.http.body.ID]

\* anonymize() returned the new study
C10_Witness ==
    /\ Returned("anonymize")
    /\ ret.out.value.id_ = "anon-1"
    /\ ~ret.sent[1]["Asynchronous"]

\* a request body without its 'Asynchronous' field
SameButAsynchronous(d) == [k \in DOMAIN d \ {"Asynchronous"} |-> d[k]]

\* C11: for the same arguments the requests of anonymize() and anonymize_as_job()
\* differ in the 'Asynchronous' field alone (false for anonymize, true for
\* anonymize_as_job); 'KeepSource' is true unless the caller passes false; remove,
\* replace and keep that are left out become empty collections; 'DicomVersion' is
\* in the request exactly when a dicom_version is given.
C11_AnonymizeRequest ==
    ret.op \in {"anonymize", "anonymize_as_job"} =>
        LET a == ret.args[1]
            d == ret.sent[1]
            other == IF ret.op = "anonymize" THEN AnonymizeAsJobData(a)
                     ELSE AnonymizeData(a)
        IN  /\ d["Asynchronous"] = (ret.op = "anonymize_as_job")
            /\ other["Asynchronous"] = ~d["Asynchronous"]
            /\ SameButAsynchronous(d) = SameButAsynchronous(other)
            /\ d["KeepSource"] = ~(a.keep_source = Some(FALSE))
            /\ a.remove = None => d["Remove"] = <<>>
            /\ a.replace = None => d["Replace"] = <<>>
            /\ a.keep = None => d["Keep"] = <<>>
            /\ ("DicomVersion" \in DOMAIN d) <=> (a.dicom_version # None)
            /\ a.dicom_version # None => d["DicomVersion"] = a.dicom_version[1]

\* anonymize_as_job() was called with a dicom_version and nothing else but
\* keep_source, and its request went out
C11_Witness ==
    /\ ret.op = "anonymize_as_job"
    /\ ret.reqs = <<"post_studies_id_anonymize">>
    /\ ret.args[1].remove = None
    /\ ret.args[1].dicom_version = Some("2021b")
    /\ ret.sent[1]["DicomVersion"] = "2021b"
    /\ ret.sent[1]["KeepSource"]

\* C12: every child the `series` accessor produces is a Series-level node built
\* with the lock flag and the client of its parent Study, in both lock modes.
C12_ChildrenInheritLockAndClient ==
    \A a \in DOMAIN nodes :
        /\ nodes[a].level = "Series"
        /\ nodes[a].lock = study.lock
        /\ nodes[a].client = client

\* an unlocked Study has built two children on a `series` call
C12_Witness ==
    /\ Returned("series")
    /\ ~study.lock
    /\ Len(lists[ret.out.value.ref]) = 2
    /\ \A k \in 1..2 : ~nodes[lists[ret.out.value.ref][k]].lock

\* the IDs of the children in a list of the heap
ChildIds(l) == [k \in 1..Len(l) |-> nodes[l[k]].id_]

\* what holds of the lists in every state
C13_State ==
    /\ Returned("series") /\ ret.reqs # <<>> =>
           ChildIds(lists[ret.out.value.ref]) = ret.http.body.Series
    /\ study.lock /\ lists # <<>> =>
           /\ ChildIds(lists[1]) = firstFetched[1].v.Series
           /\ study._child_resources = Some(Len(lists))
    /\ \A k \in DOMAIN lists : \A i, j \in DOMAIN lists[k] :
           i # j => lists[k][i] # lists[k][j]

\* what a step does to the cached children: remove_empty_series keeps a
\* subsequence of them, every other operation keeps them as they are
C13_Step ==
    study.lock /\ study._child_resources # None =>
        LET old == lists[study._child_resources[1]]
            new == lists'[study'._child_resources[1]]
        IN  /\ study'._child_resources # None
            /\ IsSubSeq(new, old)
            /\ ret'.op # "remove_empty_series" => new = old
            /\ \A a \in Range(old) : nodes'[a].id_ = nodes[a].id_

\* C13: the sequence `series` returns has exactly one child per ID of the
\* server's 'Series' array, in the server's order; no Study operation reorders
\* the cached children, and remove_empty_series keeps the relative order of
\* those it keeps.
C13_ChildrenInServerOrder == []C13_State /\ [][C13_Step]_vars

\* two children were built in the server's order and the pruning dropped the
\* first of them
C13_Witness ==
    /\ study.lock
    /\ ret.op = "remove_empty_series"
    /\ Len(lists) = 2
    /\ ChildIds(lists[1]) = <<"s2", "s1">>
    /\ lists[2] = <<lists[1][2]>>

\* the last operation was a label mutation and made exactly its one request
C14_State ==
    /\ ret.op = "add_label" => ret.reqs = <<"put_studies_id_labels_label">>
    /\ ret.op = "remove_label" => ret.reqs = <<"delete_studies_id_labels_label">>

\* a label mutation counts one request and leaves the Study's caches, the
\* children and their lists as they were
C14_Step ==
    ret'.op \in {"add_label", "remove_label"} =>
        /\ nreq' = nreq + 1
        /\ study'._information = study._information
        /\ study'._child_resources = study._child_resources
        /\ nodes' = nodes
        /\ lists' = lists

\* C14: add_label() and remove_label() each issue exactly one transport request
\* on every call, in both lock modes, and leave cached_attributes and
\* cached_children unchanged.
C14_LabelMutationFrame == []C14_State /\ [][C14_Step]_vars

\* add_label() returned on a locked Study whose two caches were populated
C14_Witness ==
    /\ Returned("add_label")
    /\ study.lock
    /\ study._information # None
    /\ study._child_resources # None

\* C15: the labels are independent of the cached attribute dictionary: the value
\* `labels` returns is not taken from cached_attributes, and a read of `labels`
\* on a lock=true Study neither reads nor populates cached_attributes (it asks
\* the server and leaves the cache as it was).
C15_LabelsIndependentOfCache ==
    [][study.lock /\ ret'.op = "labels" =>
           /\ ret'.reqs # <<>>
           /\ study'._information = study._information]_vars

\* what a step of a lock=true Study does to a populated cache
C16_Step ==
    study.lock =>
        /\ study._information # None =>
               /\ study'._information = study._information
               /\ "get_studies_id" \notin Range(ret'.reqs)
        /\ study._child_resources # None =>
               /\ study'._child_resources # None
               /\ "get_studies_id" \notin Range(ret'.reqs)
               /\ ret'.op = "series" =>
                      /\ ret'.reqs = <<>>
                      /\ ret'.out = Return(ListRef(study._child_resources[1]))

\* C16: for a lock=true Study, once cached_attributes is populated no operation
\* of the Study replaces it or resets it to unset; once cached_children is
\* populated no operation resets it to unset or fetches it again, whatever the
\* server answers.
C16_NoSilentInvalidation == [][C16_Step]_vars

\* anonymize() with keep_source=False returned on a locked Study whose two
\* caches were populated, and both are still there
C16_Witness ==
    /\ Returned("anonymize")
    /\ ~ret.sent[1]["KeepSource"]
    /\ study.lock
    /\ study._information # None
    /\ study._child_resources # None

\* the last operation was a transport method that got a response
GotResponse ==
    /\ ret.op \in {"_get", "_delete", "_post", "_put"}
    /\ ret.http.kind = "response"
\* that response's status is a 2xx
Success == 200 <= ret.http.status /\ ret.http.status < 300

\* C17 as stated: for each of the four transport methods a response whose status
\* is not 2xx is signalled as an HTTP error and never returned as a payload.
C17_NonSuccessAlwaysRaises ==
    GotResponse /\ ~Success => ret.out.kind = "raise" /\ ret.out.exc = "HTTPError"

\* C17, amended: with return_raw_response off a response whose status is not 2xx
\* is raised as an HTTP error by each of the four methods; with return_raw_response
\* on it is returned to the caller as the raw response.
C17_NonSuccessRaisesUnlessRaw ==
    GotResponse /\ ~Success =>
        IF client.return_raw_response
        THEN ret.out = Return([t |-> "raw", v |-> ret.http])
        ELSE /\ ret.out.kind = "raise"
             /\ ret.out.exc = "HTTPError"
             /\ ret.out.msg = <<"HTTP code:", StatusText(ret.http.status)>>

\* _post got a 404 with return_raw_response off and raised the HTTP error
C17_Witness ==
    /\ ret.op = "_post"
    /\ ret.http.kind = "response"
    /\ ret.http.status = 404
    /\ ~client.return_raw_response
    /\ ret.out.kind = "raise"
    /\ ret.out.exc = "HTTPError"

\* the content-type of the response contains one of the given types
ContentTypeIn(types) ==
    /\ "content-type" \in DOMAIN ret.http.headers
    /\ ret.http.headers["content-type"] \in types

\* C18: with return_raw_response off each of the four transport methods decodes
\* a 2xx response the same way: structured data when the content-type contains
\* 'application/json', otherwise text when it contains 'text/plain', otherwise
\* the raw bytes; with return_raw_response on the raw response is returned for
\* every status, undecoded.
C18_Decoding ==
    GotResponse =>
        IF client.return_raw_response
        THEN ret.out = Return([t |-> "raw", v |-> ret.http])
        ELSE Success =>
                 ret.out = Return([t |-> IF ContentTypeIn({"application/json",
                                                "application/json; charset=utf-8"})
                                         THEN "json"
                                         ELSE IF ContentTypeIn({"text/plain",
                                                     "text/plain; charset=utf-8"})
                                         THEN "text"
                                         ELSE "bytes",
                                   v |-> ret.http.body])

\* what the endpoint wrapper of the last operation's first request gave
Answer ==
    CASE ret.reqs[1] = "get_studies_id" -> get_studies_id(client, ret.http)
      [] ret.reqs[1] = "get_series_id" -> get_series_id(client, ret.http)
      [] ret.reqs[1] = "post_studies_id_anonymize" ->
             post_studies_id_anonymize(client, ret.http)
      [] ret.reqs[1] = "get_studies_id_archive" ->
             get_studies_id_archive(client, ret.http)
      [] ret.reqs[1] = "put_studies_id_labels_label" ->
             put_studies_id_labels_label(client, ret.http)
      [] ret.reqs[1] = "delete_studies_id_labels_label" ->
             delete_studies_id_labels_label(client, ret.http)

\* C19: no retry: an operation of the Study whose request fails makes no further
\* request and reports the failure to its caller after that single attempt; each
\* endpoint wrapper it calls is one HTTP request.
C19_NoRetry ==
    /\ Len(ret.reqs) <= IF ret.op = "date" THEN 2 ELSE 1
    /\ ret.reqs # <<>> /\ Answer.kind = "raise" =>
           /\ ret.reqs = <<ret.reqs[1]>>
           /\ ret.out.kind = "raise"
           /\ ret.out.exc = Answer.exc
    /\ Len(ret.reqs) = 2 /\ get_studies_id(client, ret["http2"]).kind = "raise" =>
           /\ ret.out.kind = "raise"
           /\ ret.out.exc = get_studies_id(client, ret["http2"]).exc

\* get_main_information() ran into the timeout and raised after its one request
C19_Witness ==
    /\ Raised("get_main_information")
    /\ ret.http = TimedOut
    /\ ret.reqs = <<"get_studies_id">>
    /\ ret.out.exc = "ReadTimeout"

\* the main information the last tag accessor worked on, if it had one
Metadata ==
    IF ret.reqs = <<>> THEN study._information
    ELSE IF Answer.kind = "return" THEN Some(Answer.value) ELSE None

\* C20: a tag accessor of a Study (`description`) returns the tag's value whenever
\* the tag is in the fetched metadata, the empty string included, and raises
\* TagDoesNotExistError exactly when the tag is absent from it.
C20_TagAccessor ==
    ret.op = "description" =>
        IF Metadata # None /\ Metadata[1].t = "json"
        THEN LET tags == Metadata[1].v.MainDicomTags
             IN  IF "StudyDescription" \in DOMAIN tags
                 THEN ret.out = Return([t |-> "tag", v |-> tags.StudyDescription])
                 ELSE ret.out.kind = "raise" /\ ret.out.exc = "TagDoesNotExistError"
        ELSE ret.out.kind = "raise" /\ ret.out.exc # "TagDoesNotExistError"

\* `description` returned the empty string of a Study whose description is empty
C20_Witness ==
    /\ Returned("description")
    /\ ret.out.value = [t |-> "tag", v |-> ""]
    /\ ret.http.kind = "response"
    /\ ret.http.body.MainDicomTags.StudyDescription = ""

\* the main information the first and the second read of the last `date` call
\* worked on, if the read had one
DateMetadata ==
    IF ret.reqs = <<>> THEN study._information
    ELSE IF Answer.kind = "return" THEN Some(Answer.value) ELSE None
TimeMetadata ==
    IF Len(ret.reqs) < 2 THEN study._information
    ELSE LET a == get_studies_id(client, ret["http2"])
         IN  IF a.kind = "return" THEN Some(a.value) ELSE None

\* C21: the `date` accessor yields the timestamp made of StudyDate and StudyTime
\* when both tags are present, midnight of StudyDate when StudyTime is absent, and
\* lets TagDoesNotExistError reach the caller when StudyDate is absent.
C21_DateAccessor ==
    ret.op = "date" /\ DateMetadata # None /\ DateMetadata[1].t = "json" =>
        LET dtags == DateMetadata[1].v.MainDicomTags
        IN  IF "StudyDate" \notin DOMAIN dtags
            THEN ret.out.kind = "raise" /\ ret.out.exc = "TagDoesNotExistError"
            ELSE TimeMetadata # None /\ TimeMetadata[1].t = "json" =>
                     LET ttags == TimeMetadata[1].v.MainDicomTags
                         d == dtags.StudyDate
                     IN  /\ ret.out.kind = "return"
                         /\ ret.out.value.year
                                = 1000 * d[1] + 100 * d[2] + 10 * d[3] + d[4]
                         /\ ret.out.value.month = 10 * d[5] + d[6]
                         /\ ret.out.value.day = 10 * d[7] + d[8]
                         /\ IF "StudyTime" \in DOMAIN ttags
                            THEN /\ ret.out.value.hour
                                        = 10 * ttags.StudyTime[1] + ttags.StudyTime[2]
                                 /\ ret.out.value.minute
                                        = 10 * ttags.StudyTime[3] + ttags.StudyTime[4]
                                 /\ ret.out.value.second
                                        = 10 * ttags.StudyTime[5] + ttags.StudyTime[6]
                            ELSE /\ ret.out.value.hour = 0
                                 /\ ret.out.value.minute = 0
                                 /\ ret.out.value.second = 0

\* `date` returned 2024-01-15 00:00:00 for a Study that has a date and no time
C21_Witness ==
    /\ Returned("date")
    /\ "StudyTime" \notin DOMAIN TimeMetadata[1].v.MainDicomTags
    /\ ret.out.value = [t |-> "datetime", year |-> 2024, month |-> 1, day |-> 15,
                        hour |-> 0, minute |-> 0, second |-> 0]

\* the last get_zip() made its one request and handed its outcome to the caller
C22_State ==
    ret.op = "get_zip" =>
        /\ ret.reqs = <<"get_studies_id_archive">>
        /\ ret.out = Answer
        /\ ret.http.kind = "response" /\ ret.http.status = 200
               /\ ~client.return_raw_response =>
               ret.out = Return([t |-> "bytes", v |-> ret.http.body])

\* get_zip() counts one request and leaves the Study, the children and their
\* lists as they were
C22_Step ==
    ret'.op = "get_zip" =>
        /\ nreq' = nreq + 1
        /\ study' = study
        /\ nodes' = nodes
        /\ lists' = lists

\* C22: get_zip() performs exactly one transport call per invocation in both lock
\* modes, returns that call's payload, caches nothing and leaves cached_attributes
\* and cached_children unchanged.
C22_GetZipFrame == []C22_State /\ [][C22_Step]_vars

\* get_zip() returned the archive's bytes on a locked Study whose two caches were
\* populated
C22_Witness ==
    /\ Returned("get_zip")
    /\ ret.out.value.t = "bytes"
    /\ study.lock
    /\ study._information # None
    /\ study._child_resources # None

\* C24: remove_empty_series() mutates the Study's cached child list in place: the
\* sequence object a caller obtained earlier from the lock=true `series` accessor
\* is the one that is pruned, so after the call the caller sees the pruned
\* content (the content of the Study's cached list) through it.
C24_PrunedInPlace ==
    study.lock /\ ret.op = "remove_empty_series" /\ study._child_resources # None =>
        \A l \in seriesRets : lists[l] = lists[study._child_resources[1]]

\* C29: remove_empty_series() never drops a cached Series whose own instance list
\* was never materialized (is unset): the Series it drops from the cached list are
\* those whose cached instance list is materialized and empty.
C29_UnsetChildrenKept ==
    study.lock /\ ret.op = "remove_empty_series" /\ Len(lists) >= 2 =>
        LET old == lists[Len(lists) - 1]
            new == lists[study._child_resources[1]]
        IN  \A a \in Range(old) :
                /\ nodes[a]._child_resources = None => a \in Range(new)
                /\ a \notin Range(new) => nodes[a]._child_resources = Some(<<>>)

\* the pruning dropped a Series with an empty instance list and kept one whose
\* instance list was never read
C29_Witness ==
    /\ study.lock
    /\ ret.op = "remove_empty_series"
    /\ Len(lists) >= 2
    /\ \E a \in Range(lists[Len(lists)]) : nodes[a]._child_resources = None
    /\ \E b \in Range(lists[Len(lists) - 1]) : b \notin Range(lists[Len(lists)])

\* C30: the one error translation a Study performs is the read-timeout re-raise of
\* the synchronous anonymize(): every other transport error of anonymize(), and
\* every transport error (the read-timeout included) of anonymize_as_job(),
\* get_main_information(), `series`, add_label(), remove_label() and get_zip()
\* (and of the other accessors), reaches the caller as the transport raised it.
C30_OnlyAnonymizeTranslates ==
    ret.op \in {"anonymize", "anonymize_as_job", "get_main_information", "series",
                "add_label", "remove_label", "get_zip", "labels", "description",
                "date"}
        /\ ret.reqs # <<>> /\ Answer.kind = "raise" =>
        IF ret.op = "anonymize" /\ Answer.exc = "ReadTimeout"
        THEN /\ ret.out = Raise("ReadTimeout", AnonymizeTimeoutMessage)
             /\ ret.out # Answer
        ELSE ret.out = Answer

\* anonymize_as_job() ran into the client's timeout and the caller got the
\* transport's own ReadTimeout
C30_Witness ==
    /\ Raised("anonymize_as_job")
    /\ ret.http = TimedOut
    /\ ret.out = Raise("ReadTimeout", NetMessage("ReadTimeout"))

\* no call of a shared Study is between the test of _information and its
\* assignment
NoFetchInFlight ==
    \A c \in Callers : callers[c].pc \notin {"gmi_fetch", "gmi_store"}
\* caller c's call ends in this step
Finishes(c) == callers[c].pc # "idle" /\ callers'[c].pc = "idle"

\* the cache of a shared lock=true Study holds the value written last, which is
\* one of the fetched values, whole
C23_State ==
    study.lock =>
        /\ study._information = None <=> written = <<>>
        /\ written # <<>> => study._information = Some(written[Len(written)])
        /\ study._information # None =>
               study._information[1] \in {[t |-> "json", v |-> i] : i \in StudyInfos}
        /\ Len(written) <= okFetches

\* once the racing calls are past their assignments, no step changes the cache or
\* makes a request, and a call that ends returns the cached value
C23_Step ==
    study.lock /\ NoFetchInFlight /\ study._information # None =>
        /\ study'._information = study._information
        /\ nreq' = nreq
        /\ NoFetchInFlight'
        /\ \A c \in Callers :
               Finishes(c) /\ callers[c].op = "get_main_information" =>
                   callers'[c].out = Return(study._information[1])

\* C23: when several callers race on the first get_main_information() of a shared
\* lock=true Study the fetch may be performed more than once and the last write
\* wins: once the racing calls are over, cached_attributes is the value written
\* last, one of the values fetched (never unset, never a mix), and every later
\* call returns it without a fetch.
C23_LastWriteWins == []C23_State /\ [][C23_Step]_vars

\* two racing calls fetched and wrote different values, and a later call returned
\* the second of them with no request
C23_Witness ==
    /\ study.lock
    /\ Len(written) = 2
    /\ written[1] # written[2]
    /\ \A c \in Callers : callers[c].pc = "idle"
    /\ \E c \in Callers :
           /\ callers[c].op = "get_main_information"
           /\ callers[c].nreqs = 0
           /\ callers[c].out = Return(written[2])

\* C28 as stated: for a lock=true Study shared by concurrent callers, the calls of
\* `series` all return the same cached sequence, those that race on the first
\* access included.
C28_SameSequenceUnderRace ==
    study.lock => \A a, b \in seriesRets : a = b

\* no `series` call of a shared Study is between the test of _child_resources
\* and its assignment
NoBuildInFlight ==
    \A c \in Callers :
        ~(callers[c].op = "series"
              /\ callers[c].pc \in {"gmi_test", "gmi_fetch", "gmi_store", "gmi_ret",
                                     "series_build", "series_store"})

\* each first access that raced built its own children, and the cached sequence
\* is one of those built
C28_State ==
    study.lock =>
        /\ seriesRets \subseteq DOMAIN lists
        /\ \A a, b \in DOMAIN lists : a # b => Range(lists[a]) \cap Range(lists[b]) = {}
        /\ study._child_resources # None => study._child_resources[1] \in DOMAIN lists

\* once the racing first accesses are over, no step builds children or replaces
\* the cached sequence, no `series` call takes the children for missing, and a
\* `series` call that ends returns the cached sequence
C28_Step ==
    study.lock /\ NoBuildInFlight /\ study._child_resources # None =>
        /\ study'._child_resources = study._child_resources
        /\ nodes' = nodes
        /\ lists' = lists
        /\ NoBuildInFlight'
        /\ \A c \in Callers :
               Finishes(c) /\ callers[c].op = "series" =>
                   callers'[c].out = Return(ListRef(study._child_resources[1]))

\* C28 (amended): the `series` calls that race on the first access of a shared
\* lock=true Study may each build a sequence of new child nodes and return
\* different sequences, the one assigned last staying cached; once no first access
\* is in flight every `series` call returns that cached sequence, with the child
\* nodes it holds, and builds no child anew.
C28_SameSequenceAfterRace == []C28_State /\ [][C28_Step]_vars

\* two racing calls returned different sequences and a later call returned the
\* cached one with no request
C28_Witness ==
    /\ study.lock
    /\ \E a, b \in seriesRets : a # b
    /\ \A c \in Callers : callers[c].pc = "idle"
    /\ \E c \in Callers :
           /\ callers[c].op = "series"
           /\ callers[c].nreqs = 0
           /\ callers[c].out = Return(ListRef(study._child_resources[1]))

\* the outcome of the state read a poll made from the answer `http`
Polled(http) == job_state(job, client, http).out

\* C25 as stated: wait_until_completion ends with a normal return, with
\* JobFailedError or with TimeoutError, and with TimeoutError whenever no poll
\* saw a terminal state.
C25_ThreeOutcomes ==
    ret.op = "wait_until_completion" =>
        /\ ret.out.kind = "raise" => ret.out.exc \in {"JobFailedError", "TimeoutError"}
        /\ (\A i \in 1..Len(job.seen) : job.seen[i] \notin Terminal) =>
               (ret.out.kind = "raise" /\ ret.out.exc = "TimeoutError")

\* C25 (amended): wait_until_completion(poll_interval, timeout) ends in exactly
\* one of four outcomes: a normal return after a terminal-success state is
\* observed, JobFailedError after a terminal-failure state is observed,
\* TimeoutError when the timeout elapses with no terminal state observed, or the
\* error of a poll that cannot read the job's state, which reaches the caller
\* unchanged (with a client that decodes the responses, HTTPError for a non-2xx
\* answer; the transport's own exception when the request fails); a wait whose
\* polls all succeed on a job that never reaches a terminal state ends with
\* TimeoutError, never with JobFailedError, and no wait outlasts its timeout.
C25_WaitOutcomes ==
    /\ job.pc \in {"poll", "sleep"} =>
           /\ job.elapsed <= job.timeout
           /\ job.pc = "sleep" => job.elapsed < job.timeout
           /\ \A i \in 1..Len(job.seen) : job.seen[i] \notin Terminal
    /\ ret.op = "wait_until_completion" =>
           LET n == Len(job.seen)
           IN  /\ Len(ret.reqs) = job.polls
               /\ \A i \in 1..(n - 1) : job.seen[i] \notin Terminal
               /\ ret.http.kind = "raise" =>
                      (ret.out.kind = "raise" /\ ret.out.exc = ret.http.exc)
               /\ (ret.http.kind = "response" /\ ~Accepted(ret.http)
                       /\ ~client.return_raw_response) =>
                      (ret.out.kind = "raise" /\ ret.out.exc = "HTTPError")
               /\ IF Polled(ret.http).kind = "raise"
                  THEN /\ ret.out = Polled(ret.http)
                       /\ \A i \in 1..n : job.seen[i] \notin Terminal
                  ELSE /\ n >= 1
                       /\ job.seen[n] = Polled(ret.http).value
                       /\ CASE job.seen[n] = "Success" -> ret.out = Return(NoValue)
                            [] job.seen[n] = "Failure" ->
                                   (ret.out.kind = "raise"
                                        /\ ret.out.exc = "JobFailedError")
                            [] OTHER ->
                                   /\ ret.out.kind = "raise"
                                   /\ ret.out.exc = "TimeoutError"
                                   /\ job.elapsed >= job.timeout

\* a wait of two polls on a job that stayed out of the terminal states ended with
\* TimeoutError
C25_Witness ==
    /\ ret.op = "wait_until_completion"
    /\ Len(job.seen) = 2
    /\ \A i \in 1..2 : job.seen[i] \notin Terminal
    /\ ret.out.kind = "raise"
    /\ ret.out.exc = "TimeoutError"

\* C26: a cancel, pause, resume or resubmit request that the server rejects fails
\* with InvalidJobStateError at the caller, and a transition that returns
\* normally is one the server accepted.
C26_RejectionSurfaces ==
    ret.op \in Transitions =>
        /\ (ret.http.kind = "response" /\ ~Accepted(ret.http)) =>
               (ret.out.kind = "raise" /\ ret.out.exc = "InvalidJobStateError")
        /\ ret.out.kind = "return" => Accepted(ret.http)
        /\ ret.reqs = <<Endpoint(ret.op)>>

\* the server rejected the cancellation of a job that had ended, and the caller
\* got InvalidJobStateError
C26_Witness ==
    /\ ret.op = "cancel"
    /\ job.server \in Terminal
    /\ ret.http.kind = "response"
    /\ ret.http.status = 400
    /\ ret.out.kind = "raise"
    /\ ret.out.exc = "InvalidJobStateError"

\* C27: every read of a job's `state` makes one request for the job and returns
\* the state the server has the job in at that read, whatever an earlier read
\* returned.
C27_FreshState ==
    [][(ret'.op = "state" /\ (nreq' # nreq \/ job'.reads # job.reads \/ ret' # ret)) =>
           /\ nreq' = nreq + 1
           /\ ret'.reqs = <<"get_jobs_id">>
           /\ ret'.out.kind = "return" =>
                  (ret'.out.value = job.server /\ ret'.out.value = ret'.http.body.State)]_vars

\* a read returned a terminal state and the next read another state
C27_Witness ==
    /\ ret.op = "state"
    /\ Len(job.reads) = 2
    /\ job.reads[1] \in Terminal
    /\ job.reads[2] \notin Terminal

\* the Study's cached child list is there and holds no child
CachedEmpty == study._child_resources # None /\ lists[study._child_resources[1]] = <<>>

\* C31: an empty fetched result is not taken for 'not fetched': for a lock=true
\* Study whose cached child list is empty (the server reported no child, or
\* remove_empty_series() pruned them all), a `series` call returns the cached
\* empty sequence, makes no request and builds nothing.
C31_EmptyIsFetched ==
    [][(study.lock /\ CachedEmpty /\ ret'.op = "series") =>
           /\ ret'.out = Return(ListRef(study._child_resources[1]))
           /\ ret'.reqs = <<>>
           /\ nreq' = nreq
           /\ study' = study
           /\ nodes' = nodes
           /\ lists' = lists]_vars

\* all children were pruned from a list that held some, and a later `series`
\* call returned the empty cached list with no request
C31_Witness ==
    /\ study.lock
    /\ CachedEmpty
    /\ \E l \in DOMAIN lists : lists[l] # <<>>
    /\ ret.op = "series"
    /\ ret.reqs = <<>>
    /\ ret.out = Return(ListRef(study._child_resources[1]))

\* the operation made a fetch of the Study's main information
FetchedStudy(seen) == "get_studies_id" \in Range(seen.reqs)

\* C32 as stated: for a lock=true Study used by one caller, at most one fetch of
\* the main information is performed over any sequence of calls; so an operation
\* that made such a fetch is never followed by one that makes another.
C32_AtMostOneFetch ==
    [][(study.lock /\ FetchedStudy(ret)) => ~FetchedStudy(ret')]_vars

\* at most one fetch has succeeded, and it is the one whose value is cached
C32_State ==
    study.lock =>
        /\ okFetches <= 1
        /\ okFetches = 1 <=> study._information # None
        /\ study._information # None => study._information = firstFetched
        /\ study._child_resources # None => study._information # None

\* once the main information is cached no operation fetches it again, and the
\* children a `series` call then builds are those of the cached 'Series' array
C32_Step ==
    (study.lock /\ study._information # None) =>
        /\ ~FetchedStudy(ret')
        /\ study'._information = study._information
        /\ okFetches' = okFetches
        /\ (ret'.op = "series" /\ ret'.out.kind = "return"
                /\ study._child_resources = None) =>
               LET l == lists'[ret'.out.value.ref]
               IN  [k \in 1..Len(l) |-> nodes'[l[k]].id_]
                       = study._information[1].v.Series

\* C32 (amended): for a lock=true Study used by a single caller, materializing
\* children reuses the cached attributes: over any sequence of
\* get_main_information(), `series` and tag-accessor calls, in any order, at most
\* one transport fetch of the Study's main information succeeds and no fetch is
\* performed after it; a fetch that fails caches nothing, and the next call
\* fetches again.
C32_AtMostOneSuccessfulFetch == []C32_State /\ [][C32_Step]_vars

\* after a failed fetch and a successful one, `series` built the children from
\* the cached main information without a request
C32_Witness ==
    /\ study.lock
    /\ nreq = 2
    /\ okFetches = 1
    /\ ret.op = "series"
    /\ ret.reqs = <<>>
    /\ ret.out.kind = "return"
    /\ study._child_resources = Some(ret.out.value.ref)
    /\ lists[ret.out.value.ref] # <<>>

\* C33: with return_raw_response off, every call of a transport method that gets
\* a response, whatever its status and headers (a missing content-type header
\* included), ends in one of two outcomes: a decoded payload is returned, or an
\* HTTP-level error is raised.
C33_PayloadOrHttpError ==
    (GotResponse /\ ~client.return_raw_response) =>
        \/ ret.out.kind = "return" /\ ret.out.value.t \in {"json", "text", "bytes"}
        \/ ret.out.kind = "raise" /\ ret.out.exc = "HTTPError"

\* C34 as stated, first part: for a lock=true Study with concurrent
\* get_main_information() calls, no call starts a fetch after a write to
\* cached_attributes has landed.
C34_NoFetchAfterWrite ==
    [][(study.lock /\ written # <<>>) => nreq' = nreq]_vars

\* a call about to assign holds a fetched value, and a call about to return finds
\* the attribute set
C34_State ==
    study.lock =>
        \A c \in Callers :
            /\ callers[c].pc = "gmi_store" =>
                   callers[c].r \in {Some([t |-> "json", v |-> i]) : i \in StudyInfos}
            /\ callers[c].pc = "gmi_ret" => study._information # None

\* a call that tests the attribute after a write does not go on to fetch; a request
\* is made only by a call that found the attribute unset; a call that returns
\* normally returns a value that was fetched and written
C34_Step ==
    study.lock =>
        /\ nreq' # nreq =>
               \E d \in Callers :
                   callers[d].pc = "gmi_fetch" /\ callers'[d].pc # "gmi_fetch"
        /\ \A c \in Callers :
            /\ (written # <<>> /\ callers[c].pc = "gmi_test") =>
                   callers'[c].pc # "gmi_fetch"
            /\ (Finishes(c) /\ callers[c].op = "get_main_information"
                    /\ callers'[c].out.kind = "return") =>
                   /\ written # <<>>
                   /\ callers'[c].out.value = written[Len(written)]

\* C34 (amended): for a lock=true Study, in every interleaving of concurrent
\* get_main_information() calls, no call that tests cached_attributes after a write
\* to it has landed starts a transport fetch (a call that found it unset before the
\* write may still fetch after it, and overwrite it), and every call that returns
\* normally returns a fetched value (its own or a racing caller's), never the
\* unset marker.
C34_NoFetchOnceSeenSet == []C34_State /\ [][C34_Step]_vars

\* both callers fetched; the first to assign returned the value the second one
\* assigned after it
C34_Witness ==
    /\ study.lock
    /\ Len(written) = 2
    /\ written[1] # written[2]
    /\ \A c \in Callers :
           /\ callers[c].pc = "idle"
           /\ callers[c].op = "get_main_information"
           /\ callers[c].nreqs = 1
           /\ callers[c].out = Return(written[2])

\* the first read of the last `date` call found the StudyDate tag
DateRead ==
    /\ DateMetadata # None
    /\ DateMetadata[1].t = "json"
    /\ "StudyDate" \in DOMAIN DateMetadata[1].v.MainDicomTags
\* the StudyTime the second read of the last `date` call found, if it found one
TimeRead ==
    IF "StudyTime" \in DOMAIN TimeMetadata[1].v.MainDicomTags
    THEN Some(TimeMetadata[1].v.MainDicomTags.StudyTime)
    ELSE None

\* C35 as stated: one evaluation of the `date` accessor of a lock=false Study
\* performs exactly two transport fetches.
C35_ExactlyTwoFetches ==
    (ret.op = "date" /\ ~study.lock) => Len(ret.reqs) = 2

\* C35: one evaluation of the `date` accessor of a lock=false Study performs two
\* transport fetches, one for StudyDate and one for StudyTime, when the StudyDate
\* read succeeds, and one fetch when that read fails; its date part comes from
\* the first answer and its time part from the second.  With lock=true it
\* performs at most one fetch and both parts come from the one cached snapshot.
C35_DateFetches ==
    ret.op = "date" =>
        /\ \A k \in 1..Len(ret.reqs) : ret.reqs[k] = "get_studies_id"
        /\ IF study.lock
           THEN /\ Len(ret.reqs) <= 1
                /\ ret.out.kind = "return" =>
                       /\ study._information # None
                       /\ DateMetadata = study._information
                       /\ TimeMetadata = study._information
           ELSE /\ Len(ret.reqs) = IF DateRead THEN 2 ELSE 1
                /\ ~DateRead => ret.out.kind = "raise"
                /\ study._information = None
        /\ ret.out.kind = "return" =>
               /\ DateRead
               /\ TimeMetadata # None
               /\ ret.out.value
                      = make_datetime_from_dicom_date(
                            DateMetadata[1].v.MainDicomTags.StudyDate, TimeRead)

\* a `date` of a lock=false Study whose two fetches were answered differently:
\* the first answer has no StudyTime, and the timestamp has that of the second
C35_Witness ==
    /\ ~study.lock
    /\ Returned("date")
    /\ Len(ret.reqs) = 2
    /\ DateMetadata # TimeMetadata
    /\ "StudyTime" \notin DOMAIN DateMetadata[1].v.MainDicomTags
    /\ ret.out.value.hour = 14
    /\ ret.out.value.minute = 30

\* C36, step part: no operation of a lock=false Study sets _child_resources, and
\* remove_empty_series() changes neither the Study nor any Series object nor any
\* list, makes no request and returns nothing.
C36_Step ==
    ~study.lock =>
        /\ ~study'.lock
        /\ study'._child_resources = None
        /\ ret'.op = "remove_empty_series" =>
               /\ study' = study
               /\ nodes' = nodes
               /\ lists' = lists
               /\ nreq' = nreq
               /\ ret'.reqs = <<>>
               /\ ret'.out = Return(NoValue)

\* C36: for a lock=false Study, no sequence of the Study's own operations ever
\* populates _child_resources, so remove_empty_series() is a no-op in every state
\* reached through those operations.
C36_UnlockedNeverCaches ==
    /\ [](~study.lock => study._child_resources = None)
    /\ [][C36_Step]_vars

\* remove_empty_series() ran on a lock=false Study whose `series` had returned
\* children before
C36_Witness ==
    /\ ~study.lock
    /\ Returned("remove_empty_series")
    /\ \E l \in seriesRets : Len(lists[l]) = 2
    /\ nreq >= 2

\* C37, step part: a `series` access of a lock=true Study whose children are
\* unset goes through the materialization, with a fetch when the main
\* information is unset and on the cached main information otherwise; when it
\* fails, the children stay unset and no Series object and no list is made.
C37_Step ==
    (study.lock /\ study._child_resources = None /\ ret'.op = "series") =>
        /\ ret'.reqs = IF study._information = None THEN <<"get_studies_id">>
                       ELSE <<>>
        /\ study._information # None =>
               /\ study'._information = study._information
               /\ GetItem(study._information[1], "Series").kind = "raise" =>
                      ret'.out = GetItem(study._information[1], "Series")
        /\ ret'.out.kind = "raise" =>
               /\ study'._child_resources = None
               /\ nodes' = nodes
               /\ lists' = lists
        /\ ret'.out.kind = "return" =>
               /\ study'._child_resources = Some(ret'.out.value.ref)
               /\ ret'.out.value.ref \notin DOMAIN lists
               /\ LET l == lists'[ret'.out.value.ref]
                  IN  [k \in 1..Len(l) |-> nodes'[l[k]].id_]
                          = study'._information[1].v.Series

\* C37: if the first `series` access of a lock=true Study fails (the fetch
\* raises, or the fetched main information has no 'Series' entry),
\* _child_resources stays unset, no partially built child sequence is stored, and
\* the next `series` access attempts the materialization again.
C37_FailedMaterialization ==
    /\ [](study.lock /\ Raised("series") => study._child_resources = None)
    /\ [][C37_Step]_vars

\* a `series` access failed again, without a fetch, on the cached main
\* information that has no 'Series' entry, and no child and no list exists
C37_Witness ==
    /\ study.lock
    /\ Raised("series")
    /\ ret.out.exc = "KeyError"
    /\ ret.reqs = <<>>
    /\ nreq = 1
    /\ study._information # None
    /\ study._child_resources = None
    /\ nodes = <<>>
    /\ lists = <<>>

\* list b is a whole sequence built by a `series` access: new Series objects, one
\* for each entry of the 'Series' array of main information the Study has held
Complete(b) ==
    /\ \A a \in 1..(b - 1) : Range(lists[a]) \cap Range(lists[b]) = {}
    /\ \E k \in 1..Len(written) :
           /\ "Series" \in DOMAIN written[k].v
           /\ ChildIds(lists[b]) = written[k].v.Series
\* list l has, in the order of list b, the children of b that are not empty
PrunedFrom(l, b) ==
    /\ IsSubSeq(lists[l], lists[b])
    /\ \A a \in Range(lists[b]) \ Range(lists[l]) :
           nodes[a]._child_resources = Some(<<>>)
WholeOrPruned(l) ==
    /\ l \in DOMAIN lists
    /\ \E b \in DOMAIN lists : Complete(b) /\ PrunedFrom(l, b)

\* C38: in every interleaving of remove_empty_series() with concurrent `series`
\* accesses on a lock=true Study, _child_resources is unset, or a whole sequence
\* built by an access, or what is left of such a sequence, in its order, when
\* empty children are dropped from it; the same holds of every sequence a
\* `series` access has returned and of every sequence a caller holds for its
\* assignment.
C38_WholeOrPruned ==
    study.lock =>
        /\ study._child_resources # None => WholeOrPruned(study._child_resources[1])
        /\ \A l \in seriesRets : WholeOrPruned(l)
        /\ \A c \in Callers :
               callers[c].pc \in {"series_store", "res_store"} =>
                   WholeOrPruned(callers[c].r[1])

\* remove_empty_series() dropped a child of the first sequence, and a first
\* `series` access that had started before stored a whole sequence over what was
\* left
C38_Witness ==
    /\ study.lock
    /\ \A c \in Callers : callers[c].pc = "idle"
    /\ Len(lists) = 3
    /\ Len(lists[1]) = 2
    /\ Len(lists[2]) = 1
    /\ PrunedFrom(2, 1)
    /\ study._child_resources = Some(3)
    /\ Len(lists[3]) = 2
    /\ Complete(3)
    /\ \E c \in Callers : callers[c].op = "remove_empty_series"

====
